---- MODULE Spec2Model ----
(***************************************************************************)
(* Request-dispatch and authentication pipeline of kappytown/node-server.  *)
(*                                                                         *)
(* One logical flow per inbound request (Server.handleRequest).  A flow    *)
(* is suspended at its I/O waits (body chunks, store calls, close); the    *)
(* code between two waits runs atomically, as on the Node event loop.      *)
(* Flows share only the store (tables sessions and users).                 *)
(*                                                                         *)
(* Strings the code inspects character by character (tokens, cookie        *)
(* values, parameter values) are sequences of one-character strings.       *)
(***************************************************************************)
EXTENDS Naturals, Integers, Sequences, FiniteSets, TLC

VARIABLES
    flows,      \* flow slot -> the state of the request it is handling
    finished,   \* the flow the last step ended (handleRequest returned), else idle
    sessions,   \* store: rows of table sessions, [token, user_id]
    users,      \* store: ids of the rows of table users
    nextUser,   \* store: next auto-increment id of table users
    revoked,    \* history: session cookies of the logout and DELETE session requests
                \* whose deleteSession() has completed
    issued,     \* tokens _generateToken has returned
    served,     \* number of requests accepted so far
    serverUp,   \* FALSE once an uncaught exception has ended the process
    probe,      \* a call of one function on its own: its arguments and its result
    work        \* concurrent flows and their store handles: the flows, the
                \* MySQLDatabase objects made, the connections opened

vars == <<flows, finished, sessions, users, nextUser, revoked, issued, served, serverUp,
          probe, work>>

-----------------------------------------------------------------------------
(* Bounds of the model *)

NumFlows    == 1       \* flow slots: requests in flight at the same time
MaxRequests == 3       \* requests accepted in one behaviour
MaxUsers    == 2       \* rows ever inserted in table users
MaxChunks   == 2       \* data events of one request body
SmallChunk  == 64      \* size of a body chunk of an ordinary request (bytes = chars)
BigChunk    == 600000  \* size in bytes of a chunk of an oversized body
WideChar    == 3       \* UTF-8 bytes per character of a multi-byte body
MaxSegments == 3       \* segments after API_PATH of a pathname resolved on its own
MaxClock    == 2       \* days after the epoch of the latest clock reading
MaxParams   == 2       \* parameters of a statement sent on its own
MaxText     == 3       \* characters of a string given to sanitizeString
MaxUnits    == 3       \* flows in flight together, each with its store handle
MaxCalls    == 2       \* store calls of one such flow

Flows   == 1..NumFlows
UserIds == 1..MaxUsers

-----------------------------------------------------------------------------
(* Characters and strings *)

Digits   == {"0","1","2","3","4","5","6","7","8","9"}
Lower    == {"a","b","c","d","e","f","g","h","i","j","k","l","m",
             "n","o","p","q","r","s","t","u","v","w","x","y","z"}
Upper    == {"A","B","C","D","E","F","G","H","I","J","K","L","M",
             "N","O","P","Q","R","S","T","U","V","W","X","Y","Z"}

\* /^[0-9a-zA-Z-_=|:]*$/ : the class authenticate() tests the token against
TokenClass == Digits \cup Lower \cup Upper \cup {"-", "_", "=", "|", ":"}

AllIn(s, class) == \A i \in 1..Len(s) : s[i] \in class

\* /(-{2}|\/\*|\*\/)/ : the SQL comment pattern of detectSqlInjection
HasPair(s, a, b) == \E i \in 1..(Len(s) - 1) : s[i] = a /\ s[i+1] = b

UpperSeq == <<"A","B","C","D","E","F","G","H","I","J","K","L","M",
              "N","O","P","Q","R","S","T","U","V","W","X","Y","Z">>
LowerSeq == <<"a","b","c","d","e","f","g","h","i","j","k","l","m",
              "n","o","p","q","r","s","t","u","v","w","x","y","z">>

\* one character of String.prototype.toLowerCase (the /i flag of the patterns)
Lc(c) == IF c \in Upper THEN LowerSeq[CHOOSE i \in 1..26 : UpperSeq[i] = c] ELSE c

IsWord(c)  == c \in Digits \cup Lower \cup Upper \cup {"_"}      \* \w
IsSpace(c) == c \in {" ", "\t", "\n", "\r"}                      \* \s

\* the lower-case word w occurs in s at position i, letter case ignored
MatchAt(s, i, w) ==
    /\ i >= 1
    /\ i + Len(w) - 1 <= Len(s)
    /\ \A k \in 1..Len(w) : Lc(s[i + k - 1]) = w[k]

\* \b : a word boundary lies just before position i of s
BoundaryAt(s, i) ==
    (i > 1 /\ i - 1 <= Len(s) /\ IsWord(s[i-1])) # (i >= 1 /\ i <= Len(s) /\ IsWord(s[i]))

\* positions a..b-1 of s all satisfy the class
SpanSpace(s, a, b) == \A k \in a..(b - 1) : IsSpace(s[k])
SpanWord(s, a, b)  == \A k \in a..(b - 1) : IsWord(s[k])

\* the literal words of the patterns of detectSqlInjection, in lower case
Keywords ==
    [select     |-> <<"s","e","l","e","c","t">>,
     insert     |-> <<"i","n","s","e","r","t">>,
     update     |-> <<"u","p","d","a","t","e">>,
     delete     |-> <<"d","e","l","e","t","e">>,
     drop       |-> <<"d","r","o","p">>,
     create     |-> <<"c","r","e","a","t","e">>,
     alter      |-> <<"a","l","t","e","r">>,
     exec       |-> <<"e","x","e","c">>,
     execute    |-> <<"e","x","e","c","u","t","e">>,
     union      |-> <<"u","n","i","o","n">>,
     or         |-> <<"o","r">>,
     and        |-> <<"a","n","d">>,
     xp         |-> <<"x","p","_">>,
     sp         |-> <<"s","p","_">>,
     infoSchema |-> <<"i","n","f","o","r","m","a","t","i","o","n","_","s","c","h","e","m","a">>,
     sysObjects |-> <<"s","y","s","o","b","j","e","c","t","s">>,
     sysColumns |-> <<"s","y","s","c","o","l","u","m","n","s">>]

StatementWords == {Keywords.select, Keywords.insert, Keywords.update, Keywords.delete,
                   Keywords.drop, Keywords.create, Keywords.alter, Keywords.exec,
                   Keywords.execute}
StackedWords   == {Keywords.select, Keywords.insert, Keywords.update, Keywords.delete,
                   Keywords.drop}

\* /(\b(SELECT|INSERT|UPDATE|DELETE|DROP|CREATE|ALTER|EXEC|EXECUTE)\b)/i
PatKeyword(s) ==
    \E w \in StatementWords : \E i \in 1..Len(s) :
        BoundaryAt(s, i) /\ MatchAt(s, i, w) /\ BoundaryAt(s, i + Len(w))

\* /(UNION\s+SELECT)/i
PatUnion(s) ==
    \E i \in 1..Len(s) : \E j \in (i + 6)..Len(s) :
        /\ MatchAt(s, i, Keywords.union) /\ SpanSpace(s, i + 5, j)
        /\ MatchAt(s, j, Keywords.select)

\* /(-{2}|\/\*|\*\/)/
PatComment(s) == HasPair(s, "-", "-") \/ HasPair(s, "/", "*") \/ HasPair(s, "*", "/")

\* /(\bOR\b|\bAND\b)\s+[\d\w]+\s*=\s*[\d\w]+/i
PatTautology(s) ==
    \E w \in {Keywords.or, Keywords.and} : \E i \in 1..Len(s) :
        /\ BoundaryAt(s, i) /\ MatchAt(s, i, w) /\ BoundaryAt(s, i + Len(w))
        /\ \E a \in (i + Len(w) + 1)..Len(s) : \E b \in (a + 1)..Len(s) :
           \E e \in b..Len(s) : \E c \in (e + 1)..Len(s) :
              /\ SpanSpace(s, i + Len(w), a)
              /\ SpanWord(s, a, b)
              /\ SpanSpace(s, b, e)
              /\ s[e] = "="
              /\ SpanSpace(s, e + 1, c)
              /\ IsWord(s[c])

\* /(;\s*(SELECT|INSERT|UPDATE|DELETE|DROP))/i
PatStacked(s) ==
    \E w \in StackedWords : \E i \in 1..Len(s) : \E j \in (i + 1)..Len(s) :
        s[i] = ";" /\ SpanSpace(s, i + 1, j) /\ MatchAt(s, j, w)

\* /(\bxp_|\bsp_)/i
PatProcedure(s) ==
    \E w \in {Keywords.xp, Keywords.sp} : \E i \in 1..Len(s) :
        BoundaryAt(s, i) /\ MatchAt(s, i, w)

\* /(INFORMATION_SCHEMA|SYSOBJECTS|SYSCOLUMNS)/i
PatCatalog(s) ==
    \E w \in {Keywords.infoSchema, Keywords.sysObjects, Keywords.sysColumns} :
      \E i \in 1..Len(s) :
        MatchAt(s, i, w)

\* InputSanitizer.detectSqlInjection, for a string value
detectSqlInjection(s) ==
    /\ Len(s) > 0
    /\ \/ PatKeyword(s) \/ PatUnion(s) \/ PatComment(s) \/ PatTautology(s)
       \/ PatStacked(s) \/ PatProcedure(s) \/ PatCatalog(s)

-----------------------------------------------------------------------------
(* Token/Session codec: AuthController._generateToken *)

\* what crypto.randomBytes(64).toString('base64') can return, shortened:
\* letters, digits, '+', '/' and the '=' padding
RandomBase64 ==
    { <<"a","Z","0","9","=","=">>,
      <<"b","+","/","c","=","=">>,
      <<"d","+","+","e","=","=">> }

\* .replace(/\+/g,'-').replace(/\//g,'_').replace(/\\/g,'|').replace(/ /g,':')
ReplaceChar(c) ==
    CASE c = "+"  -> "-"
      [] c = "/"  -> "_"
      [] c = "\\" -> "|"
      [] c = " "  -> ":"
      [] OTHER    -> c

_generateTokenRaw(randomBytes) == randomBytes

_generateToken(randomBytes) == [i \in 1..Len(randomBytes) |-> ReplaceChar(randomBytes[i])]

GeneratedTokens == { _generateToken(b) : b \in RandomBase64 }

-----------------------------------------------------------------------------
(* Request: cookies *)

cookieName == "simple_app_cookie"        \* AuthController.cookieName, once assigned
undefinedKey == "undefined"              \* the property key of an unassigned cookieName

HexDigits == Digits \cup {"A","B","C","D","E","F","a","b","c","d","e","f"}

\* the escapes the cookie values of this model use
PercentChar(h1, h2) ==
    CASE h1 = "2" /\ h2 = "7" -> "'"
      [] h1 = "3" /\ h2 \in {"D", "d"} -> "="
      [] OTHER -> "?"

\* decodeURIComponent throws URIError on a '%' not followed by two hex digits
Malformed(raw) ==
    \E i \in 1..Len(raw) :
        /\ raw[i] = "%"
        /\ ~(i + 2 <= Len(raw) /\ raw[i+1] \in HexDigits /\ raw[i+2] \in HexDigits)

RECURSIVE decodeURIComponent(_)
decodeURIComponent(raw) ==
    IF raw = <<>> THEN <<>>
    ELSE IF raw[1] = "%"
         THEN <<PercentChar(raw[2], raw[3])>> \o decodeURIComponent(SubSeq(raw, 4, Len(raw)))
         ELSE <<raw[1]>> \o decodeURIComponent(Tail(raw))

\* Request.getCookies: every pair of the Cookie header is decoded, so one
\* malformed value makes the call throw whatever key is asked for
getCookiesThrows(header) == \E i \in 1..Len(header) : Malformed(header[i][2])

\* Request.getCookie(key): cookies[key] || null, with '' for null as
\* _getToken does; the last pair of a name wins
getCookie(header, key) ==
    LET hits == { i \in 1..Len(header) : header[i][1] = key }
    IN  IF hits = {} THEN <<>>
        ELSE decodeURIComponent(header[CHOOSE i \in hits : \A j \in hits : j <= i][2])

\* AuthController._getToken, given the value this.cookieName has when it runs
_getToken(header, key) == getCookie(header, key)

\* raw values a client may send as the session cookie
RawCookieValues ==
    GeneratedTokens \cup
    { <<>>,                          \* empty value
      <<"a","%","2","7">>,            \* decodes to a' : outside the token class
      <<"a","%">> }                   \* malformed escape

\* the Cookie headers of the requests of this model
CookieHeaders ==
    { <<>> } \cup
    { << <<cookieName, v>> >> : v \in RawCookieValues } \cup
    { << <<cookieName, t>>, <<undefinedKey, t>> >> : t \in GeneratedTokens }

-----------------------------------------------------------------------------
(* Router *)

\* A path is text: a sequence of symbols, '/' and the words between the
\* slashes (a parameter ':name' of a registered path is one symbol).
Slash == "/"

\* the text of the path with these words as its segments, '' for an empty one
RECURSIVE Path(_)
Path(segs) ==
    IF segs = <<>> THEN <<>>
    ELSE <<Slash>> \o (IF Head(segs) = "" THEN <<>> ELSE <<Head(segs)>>) \o Path(Tail(segs))

\* API_PATH, '/api/v1', as path segments
API_PATH == <<"api", "v1">>

\* the parameter symbols /:(\w+)/g finds in the registered paths
ParamSegments == {":userId", ":id", ":name", ":reportId"}

\* the name /:(\w+)/ captures in a parameter symbol
KeyName(seg) ==
    CASE seg = ":userId"   -> "userId"
      [] seg = ":id"       -> "id"
      [] seg = ":name"     -> "name"
      [] seg = ":reportId" -> "reportId"

\* the regex source a parameter becomes: ([^\/]+)
Group == "([^/]+)"

\* Router._pathToRegex: '/' is escaped, every parameter becomes a group, and
\* the whole is anchored: new RegExp(`^${regexPath}$`)
_pathToRegex(path) ==
    [i \in 1..Len(path) |-> IF path[i] \in ParamSegments THEN Group ELSE path[i]]

\* Router._extractParamKeys: the parameter names in declaration order
RECURSIVE _extractParamKeys(_)
_extractParamKeys(path) ==
    IF path = <<>> THEN <<>>
    ELSE (IF Head(path) \in ParamSegments THEN <<KeyName(Head(path))>> ELSE <<>>)
         \o _extractParamKeys(Tail(path))

\* a match of a pattern that lacks the closing anchor: the text may go on
\* after the pattern
RECURSIVE ExecPrefix(_, _)
ExecPrefix(pattern, text) ==
    IF pattern = <<>> THEN [ok |-> TRUE, groups |-> <<>>]
    ELSE IF Head(pattern) = Group
    THEN LET runs == { n \in 1..Len(text) :
                         /\ \A i \in 1..n : text[i] # Slash
                         /\ ExecPrefix(Tail(pattern), SubSeq(text, n + 1, Len(text))).ok }
         IN  IF runs = {} THEN [ok |-> FALSE, groups |-> <<>>]
             ELSE LET n == CHOOSE m \in runs : \A l \in runs : l <= m
                  IN  [ok     |-> TRUE,
                       groups |-> <<SubSeq(text, 1, n)>>
                                  \o ExecPrefix(Tail(pattern),
                                                SubSeq(text, n + 1, Len(text))).groups]
    ELSE IF text # <<>> /\ Head(text) = Head(pattern)
    THEN ExecPrefix(Tail(pattern), Tail(text))
    ELSE [ok |-> FALSE, groups |-> <<>>]

\* pathname.match(pattern) for an anchored pattern of literals and groups:
\* whether it matches and what the groups capture; a group takes the longest
\* run of symbols other than '/' that lets the rest match
RECURSIVE Exec(_, _)
Exec(pattern, text) ==
    IF pattern = <<>> THEN [ok |-> text = <<>>, groups |-> <<>>]
    ELSE IF Head(pattern) = Group
    THEN LET runs == { n \in 1..Len(text) :
                         /\ \A i \in 1..n : text[i] # Slash
                         /\ Exec(Tail(pattern), SubSeq(text, n + 1, Len(text))).ok }
         IN  IF runs = {} THEN [ok |-> FALSE, groups |-> <<>>]
             ELSE LET n == CHOOSE m \in runs : \A l \in runs : l <= m
                  IN  [ok     |-> TRUE,
                       groups |-> <<SubSeq(text, 1, n)>>
                                  \o Exec(Tail(pattern), SubSeq(text, n + 1, Len(text))).groups]
    ELSE IF text # <<>> /\ Head(text) = Head(pattern)
    THEN Exec(Tail(pattern), Tail(text))
    ELSE [ok |-> FALSE, groups |-> <<>>]

\* Router._addRoute: the entry pushed on this.routes[method]
Route(m, p, c, a) ==
    LET path == Path(API_PATH \o p)
    IN  [method |-> m, path |-> path, pattern |-> _pathToRegex(path),
         keys |-> _extractParamKeys(path), controller |-> c, action |-> a]

\* Server.setupRoutes, in registration order
Routes ==
    << Route("GET",    <<"auth","session">>,            "UserController", "session"),
       Route("DELETE", <<"auth","session">>,            "UserController", "session"),
       Route("POST",   <<"auth","login">>,              "UserController", "login"),
       Route("POST",   <<"auth","logout">>,             "UserController", "logout"),
       Route("POST",   <<"user">>,                      "UserController", "create"),
       Route("GET",    <<"user",":userId">>,            "UserController", "read"),
       Route("PUT",    <<"user",":userId">>,            "UserController", "update"),
       Route("DELETE", <<"user",":userId">>,            "UserController", "delete"),
       Route("POST",   <<"user","sendMail">>,           "UserController", "sendMail"),
       Route("GET",    <<"products","categories">>,     "ProductsController", "readCategories"),
       Route("GET",    <<"products","category",":name">>, "ProductsController", "readCategory"),
       Route("GET",    <<"products">>,                  "ProductsController", "readAll"),
       Route("GET",    <<"products",":id">>,            "ProductsController", "read"),
       Route("PUT",    <<"products",":id">>,            "ProductsController", "update"),
       Route("DELETE", <<"products",":id">>,            "ProductsController", "delete"),
       Route("GET",    <<"orders","statuses">>,         "OrdersController", "readStatuses"),
       Route("GET",    <<"orders","status",":name">>,   "OrdersController", "readStatus"),
       Route("GET",    <<"orders">>,                    "OrdersController", "readAll"),
       Route("GET",    <<"orders",":id">>,              "OrdersController", "read"),
       Route("GET",    <<"report",":reportId">>,        "ReportController", "index") >>

\* whether the pattern of a registered path matches the pathname
PatternAccepts(path, pathname) == Exec(_pathToRegex(path), pathname).ok

\* the groups match[1], match[2], ... of the match
Captures(path, pathname) == Exec(_pathToRegex(path), pathname).groups

\* a match that looks through the routes of every method
matchAnyMethod(method, pathname) ==
    LET hits == { i \in 1..Len(Routes) : Exec(Routes[i].pattern, pathname).ok }
    IN  IF hits = {} THEN 0 ELSE CHOOSE i \in hits : \A j \in hits : i <= j

\* a match that goes on after a hit and returns the last one
matchLast(method, pathname) ==
    LET hits == { i \in 1..Len(Routes) :
                    Routes[i].method = method /\ Exec(Routes[i].pattern, pathname).ok }
    IN  IF hits = {} THEN 0 ELSE CHOOSE i \in hits : \A j \in hits : j <= i

\* Router.match: index in Routes of the first route of this.routes[method]
\* whose pattern matches the pathname; 0 for null
match(method, pathname) ==
    LET hits == { i \in 1..Len(Routes) :
                    Routes[i].method = method /\ Exec(Routes[i].pattern, pathname).ok }
    IN  IF hits = {} THEN 0 ELSE CHOOSE i \in hits : \A j \in hits : i <= j

\* Router.match: params[route.keys[i]] = match[i + 1], a later key of the
\* same name overwriting an earlier one
matchParams(route, pathname) ==
    LET groups == Exec(route.pattern, pathname).groups
        names  == { route.keys[i] : i \in 1..Len(route.keys) }
    IN  [ k \in names |->
            groups[CHOOSE i \in 1..Len(route.keys) :
                      /\ route.keys[i] = k
                      /\ \A j \in 1..Len(route.keys) : route.keys[j] = k => j <= i] ]

\* a captured run as the string the handlers read; the runs of the requests
\* of the dispatch model are single words
ParamText(run) == IF Len(run) = 1 THEN run[1] ELSE "composite"

Methods == {"GET", "POST", "PUT", "DELETE", "OPTIONS"}

\* values of the path parameters in the requests of this model
ParamValues(seg) ==
    CASE seg = ":userId"   -> {"1", "2"}
      [] seg = ":id"       -> {"7", "abc"}
      [] seg = ":name"     -> {"x", "x--y"}
      [] seg = ":reportId" -> {"orderStats", "topProducts", "recentOrders", "index",
                               "authenticate", "createSession", "deleteSession",
                               "deleteCookie", "toString", "nope"}

\* the characters of a parameter value, for the checks that read them
Chars(v) == IF v = "x--y" THEN <<"x","-","-","y">> ELSE <<v>>

\* parseInt(v): -1 stands for NaN
parseInt(v) ==
    CASE v = "7" -> 7 [] v = "0" -> 0 [] v = "1" -> 1 [] v = "2" -> 2 [] OTHER -> -1

\* the pathnames of the requests of this model: every registered pattern with
\* its parameter replaced by each value, and pathnames no pattern accepts
Instances(pattern) ==
    IF \E i \in 1..Len(pattern) : pattern[i] \in ParamSegments
    THEN LET k == CHOOSE i \in 1..Len(pattern) : pattern[i] \in ParamSegments
         IN  { [pattern EXCEPT ![k] = v] : v \in ParamValues(pattern[k]) }
    ELSE { pattern }

Pathnames ==
    UNION { Instances(Routes[i].path) : i \in 1..Len(Routes) }
    \cup { Path(API_PATH), Path(API_PATH \o <<"products", "">>),
           Path(API_PATH \o <<"user", "7", "x">>) }

-----------------------------------------------------------------------------
(* Errors: exceptions/CustomExceptions.js, ApiException *)

\* the code each exception class passes to ApiException; "Error" stands for
\* every error that is no ApiException (Error, TypeError, URIError, ...)
ApiExceptions == {"AuthenticationException", "MethodNotAllowedException",
                  "MethodNotFoundException", "MissingParametersException",
                  "NotFoundException", "ValidationException"}

ExceptionCode(name) ==
    CASE name = "AuthenticationException"    -> 401
      [] name = "MethodNotAllowedException"  -> 405
      [] name = "MethodNotFoundException"    -> 404
      [] name = "MissingParametersException" -> 400
      [] name = "NotFoundException"          -> 404
      [] name = "ValidationException"        -> 422
      [] OTHER                               -> 500

\* the catch block of Server.handleRequest: error instanceof ApiException ?
\* error.code : 500
CatchStatus(name) == IF name \in ApiExceptions THEN ExceptionCode(name) ELSE 500

-----------------------------------------------------------------------------
(* Flows *)

\* JavaScript values, tagged with their type: undefined, number (num), NaN,
\* string (text), boolean (bool), function (name), date (time, in ms) and
\* invalidDate, the Date whose time value is NaN
Undefined == [type |-> "undefined"]

\* obj[key]: undefined for a property the object does not have
Get(obj, key) == IF key \in DOMAIN obj THEN obj[key] ELSE Undefined

\* ToBoolean(x), as && and ! and if apply it
Truthy(x) ==
    CASE x.type = "undefined" -> FALSE
      [] x.type = "NaN"       -> FALSE
      [] x.type = "number"    -> x.num # 0
      [] x.type = "null"      -> FALSE
      [] x.type = "string"    -> IF "text" \in DOMAIN x THEN x.text # "" ELSE x.chars # <<>>
      [] x.type = "boolean"   -> x.bool
      [] OTHER                -> TRUE

\* ToString(x)
ToText(x) ==
    CASE x.type = "undefined"   -> "undefined"
      [] x.type = "NaN"         -> "NaN"
      [] x.type = "number"      -> ToString(x.num)
      [] x.type = "string"      -> x.text
      [] x.type = "boolean"     -> IF x.bool THEN "true" ELSE "false"
      [] x.type = "function"    -> "function " \o x.name \o "() { [native code] }"
      [] x.type = "date"        -> "Date " \o ToString(x.time)
      [] x.type = "invalidDate" -> "Invalid Date"

\* a + b: concatenation of the texts when an operand's primitive is a string
\* (strings, functions, dates), the sum of two numbers, NaN with undefined
Plus(a, b) ==
    IF {a.type, b.type} \cap {"string", "function", "date", "invalidDate"} # {}
    THEN [type |-> "string", text |-> ToText(a) \o ToText(b)]
    ELSE IF a.type = "number" /\ b.type = "number"
    THEN [type |-> "number", num |-> a.num + b.num]
    ELSE [type |-> "NaN"]

\* the date string Response.clearCookie passes, and what Date.parse makes of
\* a text: its time value, or -1 for NaN
EpochText == "Thu, 01 Jan 1970 00:00:00 GMT"
DateParse(text) == IF text = EpochText THEN 0 ELSE -1

\* new Date(x)
NewDate(x) ==
    CASE x.type = "number" -> [type |-> "date", time |-> x.num]
      [] x.type = "string" -> IF DateParse(x.text) >= 0
                              THEN [type |-> "date", time |-> DateParse(x.text)]
                              ELSE [type |-> "invalidDate"]
      [] x.type = "date"   -> x
      [] OTHER             -> [type |-> "invalidDate"]

NoCookieSet == [name |-> "", value |-> <<>>, attrs |-> <<>>]

sessionTimeout == 1209600000      \* 1000 * 60 * 60 * 24 * 14
maxBodySize    == 1048576         \* 1024 * 1024

IdleFlow ==
    [ pc        |-> "idle",      \* idle, body, parsed, wait, done, lost
      method    |-> "",
      path      |-> <<>>,        \* pathname of the request URL, once Router.match saw it
      bodyChars |-> 0,           \* body.length: UTF-16 units accumulated
      bodyBytes |-> 0,           \* bytes received
      chunks    |-> 0,           \* data events so far
      body      |-> "emptyObject", \* this.body: emptyObject, parsed, form, raw;
                                 \* malformed: JSON.parse threw
      destroyed |-> FALSE,       \* req.connection.destroy() was called
      controller|-> "",
      action    |-> "",
      param     |-> "",          \* value of the route parameter
      header    |-> <<>>,        \* the Cookie header of the request
      token     |-> <<>>,        \* this.token
      userId    |-> 0,           \* this.userId
      conn      |-> "none",      \* db.connection: none, open, closed
      prog      |-> <<>>,        \* what is left of the handler
      cred      |-> [user |-> 0, pw |-> FALSE],  \* the login inputs
      found     |-> 0,           \* id of the user UserModel.login returned
      result    |-> "unset",     \* the handler's result: unset, rows, none
      responses |-> 0,           \* calls of Response.send
      status    |-> 0,           \* status of the last response
      setCookie |-> NoCookieSet, \* the Set-Cookie header
      err       |-> "",          \* the error the flow raised
      authed    |-> FALSE,       \* authenticate() returned
      target    |-> 0,           \* the user id given to UserModel.read/update/delete
      log       |-> <<>> ]       \* history: the steps of the flow, in order

\* ops at which a handler waits for I/O
Suspending == {"lookup", "query", "queryName", "loginQuery", "userInsert", "userDelete",
               "createSession", "deleteSession", "sendMail", "close"}

Logged(r, e) == [r EXCEPT !.log = Append(@, e)]

\* a send that ends the response itself after json() has ended it
sendAndEnd(r, code) ==
    [Logged(r, "respond") EXCEPT !.responses = @ + 2, !.status = code]

\* Response.send through json(): writeHead + end
send(r, code) ==
    [Logged(r, "respond") EXCEPT !.responses = @ + 1, !.status = code]

\* an error thrown inside the try of handleRequest: the catch block answers
Throw(r, name) ==
    [send(r, CatchStatus(name)) EXCEPT !.err = name, !.pc = "done", !.prog = <<>>]

\* Response.cookie: the defaults of the options
CookieDefaults ==
    [path |-> [type |-> "string", text |-> "/"], httpOnly |-> [type |-> "boolean", bool |-> TRUE]]

\* { ...defaults, ...options }
Spread(defaults, options) ==
    [k \in DOMAIN defaults \cup DOMAIN options |->
        IF k \in DOMAIN options THEN options[k] ELSE defaults[k]]

\* a cookieStr that writes Expires whenever opts.expires is set
cookieStrBoth(name, value, options) ==
    LET opts == Spread(CookieDefaults, options)
        o(k) == Get(opts, k)
        Attr(on, a, v) == IF on THEN <<[attr |-> a, val |-> v]>> ELSE <<>>
    IN  [name  |-> name,
         value |-> value,
         attrs |->
            Attr(Truthy(o("maxAge")), "Max-Age", o("maxAge"))
         \o Attr(Truthy(o("expires")), "Expires", o("expires"))
         \o Attr(Truthy(o("path")), "Path", o("path"))
         \o Attr(Truthy(o("httpOnly")), "HttpOnly", Undefined)
         \o Attr(Truthy(o("secure")), "Secure", Undefined)
         \o Attr(Truthy(o("sameSite")), "SameSite", o("sameSite"))]

\* Response.cookie, the string it builds: name=value, then the attributes in
\* the order they are appended; val is the option value whose text `${...}`
\* writes after the '=' (none for HttpOnly and Secure)
cookieStr(name, value, options) ==
    LET opts == Spread(CookieDefaults, options)
        o(k) == Get(opts, k)
        Attr(on, a, v) == IF on THEN <<[attr |-> a, val |-> v]>> ELSE <<>>
    IN  [name  |-> name,
         value |-> value,
         attrs |->
            Attr(Truthy(o("maxAge")) /\ ~Truthy(o("expires")), "Max-Age", o("maxAge"))
         \o Attr(~Truthy(o("maxAge")) /\ Truthy(o("expires")), "Expires", o("expires"))
         \o Attr(Truthy(o("path")), "Path", o("path"))
         \o Attr(Truthy(o("httpOnly")), "HttpOnly", Undefined)
         \o Attr(Truthy(o("secure")), "Secure", Undefined)
         \o Attr(Truthy(o("sameSite")), "SameSite", o("sameSite"))]

\* Response.cookie(name, value, options): this.setHeader('Set-Cookie', cookieStr)
cookie(r, name, value, options) ==
    [r EXCEPT !.setCookie = cookieStr(name, value, options)]

\* Response.clearCookie(name)
clearCookie(r, name) ==
    cookie(r, name, <<>>, [expires |-> [type |-> "string", text |-> EpochText]])

-----------------------------------------------------------------------------
(* Handlers *)

\* what a request supplies for the inputs a handler reads (query, params,
\* body): kind says how the handler's checks judge them, user and pw which
\* account an email names (0: none) and whether the password is its password
DefaultInput == [kind |-> "ok", user |-> 0, pw |-> FALSE]

Inputs ==
    { [kind |-> k, user |-> 0, pw |-> FALSE] :
         k \in {"missing", "invalid", "same", "nullBody"} }
    \cup { [kind |-> "ok", user |-> u, pw |-> p] : u \in 0..MaxUsers, p \in BOOLEAN }

\* ops that read request inputs
InputOps == {"loginInput", "createInput", "mailInput", "updateInput",
             "productInput", "pageInput"}

\* the report sub-operations of ReportController
ReportOperations == {"orderStats", "topProducts", "recentOrders"}

\* typeof this[reportId] === 'function' on a ReportController: its own
\* methods, those of AuthController and those of Object.prototype
ReportCallable == ReportOperations \cup
    {"index", "authenticate", "createSession", "deleteSession", "isAuthenticated",
     "deleteCookie", "toString", "constructor"}

\* ReportController.index: await this[reportId]()
ReportProgram(reportId) ==
    CASE reportId \in ReportOperations  -> <<"authenticate", "lookup", "query", "close", "success">>
      [] reportId = "index"             -> <<"throwError">>     \* unbounded recursion: RangeError
      [] reportId = "constructor"       -> <<"throwError">>     \* class constructor without new: TypeError
      [] reportId = "authenticate"      -> <<"authenticate", "lookup">>
      [] reportId = "createSession"     -> <<"createSession">>
      [] reportId = "deleteSession"     -> <<"deleteSession">>
      [] reportId = "deleteCookie"      -> <<"clearCookie">>
      [] reportId \in ReportCallable    -> <<>>                 \* isAuthenticated, toString
      [] OTHER                          -> <<"throwNotFound">>

\* the body of each action of UserController, as the steps it takes
UserProgram(action, method) ==
    CASE action = "session" ->
            IF method = "GET"
            THEN <<"authenticate", "lookup", "query", "close", "success">>
            ELSE <<"deleteSession", "close", "success">>
      [] action = "login" ->
            <<"loginInput", "loginQuery", "createSession", "close", "success">>
      [] action = "logout" ->
            <<"deleteSession", "close", "success">>
      [] action = "create" ->
            <<"createInput", "query", "existsCheck", "userInsert", "close", "checkResult",
              "success">>
      [] action = "read" ->
            <<"authenticate", "lookup", "checkUserId", "query", "close", "success">>
      [] action = "update" ->
            <<"authenticate", "lookup", "updateInput", "query", "close", "checkResult", "success">>
      [] action = "delete" ->
            <<"authenticate", "lookup", "checkUserId", "userDelete", "close", "checkResult",
              "clearCookie", "success">>
      [] action = "sendMail" ->
            <<"mailInput", "sendMail", "close", "checkResult", "success">>

\* the actions of ProductsController
ProductsProgram(action) ==
    CASE action = "readAll"        -> <<"pageInput", "query", "close", "success">>
      [] action = "read"           -> <<"idParam", "query", "close", "success">>
      [] action = "readCategories" -> <<"query", "close", "success">>
      [] action = "readCategory"   -> <<"nameParam", "queryName", "close", "success">>
      [] action = "update" ->
            <<"authenticate", "lookup", "productInput", "idParam", "productUpdate", "close",
              "checkResult", "success">>
      [] action = "delete" ->
            <<"authenticate", "lookup", "idParam", "query", "close", "checkResult", "success">>

\* an OrdersController whose actions answer before they close
OrdersProgramRespondFirst(action) ==
    CASE action = "readAll"      ->
            <<"authenticate", "lookup", "pageInput", "query", "success", "close">>
      [] action = "read"         ->
            <<"authenticate", "lookup", "idParam", "query", "success", "close">>
      [] action = "readStatuses" -> <<"query", "success", "close">>
      [] action = "readStatus"   -> <<"nameParam", "queryName", "success", "close">>

\* the actions of OrdersController
OrdersProgram(action) ==
    CASE action = "readAll"      ->
            <<"authenticate", "lookup", "pageInput", "query", "close", "success">>
      [] action = "read"         ->
            <<"authenticate", "lookup", "idParam", "query", "close", "success">>
      [] action = "readStatuses" -> <<"query", "close", "success">>
      [] action = "readStatus"   -> <<"nameParam", "queryName", "close", "success">>

\* await controller[route.action]()
Program(controller, action, method, param) ==
    CASE controller = "UserController"     -> UserProgram(action, method)
      [] controller = "ProductsController" -> ProductsProgram(action)
      [] controller = "OrdersController"   -> OrdersProgram(action)
      [] controller = "ReportController"   -> ReportProgram(param)

\* an authenticate that tests only that the token is not empty
authenticateAnyToken(r) ==
    LET tok  == _getToken(r.header, cookieName)
        r1   == [Logged(r, "authenticate") EXCEPT !.token = tok]
    IN  IF tok = <<>>
        THEN Throw(r1, "AuthenticationException")
        ELSE [r1 EXCEPT !.prog = Tail(@)]

\* AuthController.authenticate up to the store call: read the cookie again,
\* test it, throw or go on to the lookup
authenticate(r) ==
    LET tok  == _getToken(r.header, cookieName)
        r1   == [Logged(r, "authenticate") EXCEPT !.token = tok]
    IN  IF tok = <<>> \/ ~AllIn(tok, TokenClass)
        THEN Throw(r1, "AuthenticationException")
        ELSE [r1 EXCEPT !.prog = Tail(@)]

\* the checks a handler makes on its inputs before its model call
CheckInput(r, op, inp) ==
    LET next == [r EXCEPT !.prog = Tail(@)]
    IN  CASE op = "pageInput" ->
               IF inp.kind = "invalid" THEN [next EXCEPT !.result = "nan"] ELSE next
          [] inp.kind = "nullBody" /\ r.method \in {"POST", "PUT"} ->
               Throw(r, "Error")        \* this.body.hasOwnProperty on null: TypeError
          [] op = "productInput" ->  \* no check: an absent field is read as '' or 0
               next
          [] op = "updateInput" ->
               CASE r.userId = 0 \/ inp.kind = "missing" -> Throw(r, "MissingParametersException")
                 [] inp.kind \in {"invalid", "same"}     -> Throw(r, "ValidationException")
                 [] OTHER                                 -> next
          [] op = "loginInput" ->
               IF inp.kind = "ok"
               THEN [next EXCEPT !.cred = [user |-> inp.user, pw |-> inp.pw]]
               ELSE Throw(r, "MissingParametersException")
          [] OTHER ->                   \* createInput, mailInput
               IF inp.kind = "ok" THEN next ELSE Throw(r, "MissingParametersException")

\* the handler from its current step to its next I/O wait, its return or
\* its throw
RECURSIVE RunSync(_, _)
RunSync(r, inp) ==
    IF r.pc = "done" THEN r
    ELSE IF r.prog = <<>> THEN [r EXCEPT !.pc = "done"]
    ELSE LET op   == Head(r.prog)
             next == [r EXCEPT !.prog = Tail(@)]
         IN  CASE op \in Suspending -> [r EXCEPT !.pc = "wait"]
               [] op = "authenticate" -> RunSync(authenticate(r), inp)
               [] op \in InputOps     -> RunSync(CheckInput(r, op, inp), inp)
               [] op = "checkUserId"  ->
                    IF r.userId = 0 THEN Throw(r, "MissingParametersException")
                    ELSE RunSync(next, inp)
               [] op = "idParam"      ->
                    IF parseInt(r.param) <= 0 THEN Throw(r, "MissingParametersException")
                    ELSE RunSync(next, inp)
               [] op = "nameParam"    ->
                    IF r.param = "" THEN Throw(r, "MissingParametersException")
                    ELSE RunSync(next, inp)
               [] op = "productUpdate" ->   \* name is never null: sql is never ''
                    RunSync([r EXCEPT !.prog = <<"query">> \o Tail(@)], inp)
               [] op = "existsCheck"  ->     \* UserModel.create: 'User already exists'
                    IF r.result = "rows" THEN Throw(r, "ValidationException")
                    ELSE RunSync(next, inp)
               [] op = "checkResult"  ->
                    IF r.result = "none" THEN Throw(r, "ValidationException")
                    ELSE RunSync(next, inp)
               [] op = "clearCookie"  -> RunSync(clearCookie(next, cookieName), inp)
               [] op = "success"      -> RunSync(send(next, 200), inp)
               [] op = "throwNotFound" -> Throw(r, "NotFoundException")
               [] OTHER               -> Throw(r, "Error")      \* throwError

\* whether the steps up to the next wait read request inputs
RECURSIVE ReadsInput(_)
ReadsInput(prog) ==
    IF prog = <<>> \/ Head(prog) \in Suspending THEN FALSE
    ELSE Head(prog) \in InputOps \/ ReadsInput(Tail(prog))

InputsFor(prog) == IF ReadsInput(prog) THEN Inputs ELSE {DefaultInput}

-----------------------------------------------------------------------------
(* Data access layer: MySQLDatabase *)

\* how a store call can end, apart from what the tables hold: the connection
\* cannot be opened, or the driver rejects the statement
Outcomes(r) ==
    {"ok", "driverFail"} \cup (IF r.conn = "none" THEN {"connectFail"} ELSE {})

\* MySQLDatabase.query before the driver call: if (!this.connection) connect()
connect(r) == IF r.conn = "none" THEN [Logged(r, "open") EXCEPT !.conn = "open"] ELSE r

\* a string in a parameter list, as its characters
Str(chars) == [type |-> "string", chars |-> chars]

\* a gate that looks at the first parameter only
_sanitizeParamsFirst(params) ==
    /\ Len(params) > 0
    /\ params[1].type = "string" /\ detectSqlInjection(params[1].chars)

\* Database._sanitizeParams throws: some parameter is a string and flagged
_sanitizeParamsThrows(params) ==
    \E i \in 1..Len(params) :
        params[i].type = "string" /\ detectSqlInjection(params[i].chars)

\* MySQLDatabase.query throws: connect() fails, the gate throws, the driver
\* throws (also on a connection that was ended)
queryThrows(r, params, out) ==
    \/ out \in {"connectFail", "driverFail"}
    \/ _sanitizeParamsThrows(params)
    \/ r.conn = "closed"

\* the flow after a throwing MySQLDatabase.query: the connection stays open
\* unless opening it was what failed
queryThrown(r, out) == Throw(IF out = "connectFail" THEN r ELSE connect(r), "Error")

\* the flow after a statement went to the driver
queried(r, stmt) == [Logged(connect(r), stmt) EXCEPT !.prog = Tail(@)]

-----------------------------------------------------------------------------
(* Session codec, continued *)

\* the clock: milliseconds since the epoch
Clock == { k * 86400000 : k \in 0..MaxClock }

\* the properties of an AuthController the expressions below read
this == [sessionTimeout |-> [type |-> "number", num |-> sessionTimeout]]

\* AuthController._getSessionExpiration at the time now:
\* new Date(Date.now + this.sessionTimout), Date.now being the function (not
\* a call of it) and sessionTimout a property the controller does not have
_getSessionExpiration(now) ==
    NewDate(Plus([type |-> "function", name |-> "now", returns |-> now],
                 Get(this, "sessionTimout")))

\* AuthModel.authenticate(token), the rows of its statement: SELECT user_id
\* FROM sessions WHERE token = ? (LIMIT 1 takes one of them)
authModelAuthenticate(table, token) == { s \in table : s.token = token }

\* the sessions table after INSERT ... ON DUPLICATE KEY UPDATE of row: token
\* is its unique key
upsert(table, row) == { s \in table : s.token # row.token } \cup {row}

\* a _setUserAndToken that always takes its defaults (userId = 0, token = null)
_setUserAndTokenDefaults(r, userId, token) == [r EXCEPT !.userId = 0, !.token = <<>>]

\* AuthController._setUserAndToken(userId, token)
_setUserAndToken(r, userId, token) == [r EXCEPT !.userId = userId, !.token = token]

\* a deleteSession that fails when the DELETE affected no row
deleteSessionStrict(r, table) ==
    IF \A s \in table : s.token # r.token
    THEN [flow |-> Throw(queried(r, "statement"), "NotFoundException"), table |-> table]
    ELSE [flow  |-> _setUserAndToken(clearCookie(queried(r, "statement"), cookieName), 0, <<>>),
          table |-> { s \in table : s.token # r.token }]

\* AuthController.deleteSession() when the store call returns: the flow after
\* it and the sessions table after DELETE FROM sessions WHERE token = ?; the
\* controller does not look at the result of the DELETE
deleteSession(r, table) ==
    [flow  |-> _setUserAndToken(clearCookie(queried(r, "statement"), cookieName), 0, <<>>),
     table |-> { s \in table : s.token # r.token }]

-----------------------------------------------------------------------------
(* The state machine *)

\* no function is called on its own
NoProbe == [unit |-> "none"]

\* the flows with store handles: their names, and the state before any of
\* them has started: pc is where the flow stands, db the MySQLDatabase object
\* it was given (its place in handles, 0 for none), calls the store calls its
\* handler has still to issue, called whether it has issued one
Units == 1..MaxUnits

NoWork ==
    [flow        |-> [u \in Units |-> [pc |-> "idle", db |-> 0, calls |-> 0,
                                       called |-> FALSE]],
     handles     |-> <<>>,
     connections |-> <<>>]

Init ==
    /\ flows    = [f \in Flows |-> IdleFlow]
    /\ finished = IdleFlow
    /\ sessions = {}
    /\ users    = {1}
    /\ nextUser = 2
    /\ revoked  = {}
    /\ issued   = {}
    /\ served   = 0
    /\ serverUp = TRUE
    /\ probe    = NoProbe
    /\ work     = NoWork

Store == <<sessions, users, nextUser, issued>>

\* the intermediate values of a handler that nothing of it reads any more
\* are dropped
Forget(r) ==
    LET made == \A i \in 1..Len(r.prog) : r.prog[i] # "createSession"
        r1   == IF made THEN [r EXCEPT !.found = 0] ELSE r
    IN  IF r.pc \in {"done", "lost"}
        THEN [r1 EXCEPT !.result = "unset", !.cred = IdleFlow.cred]
        ELSE r1

\* the step leaves flow f as r: a flow that ended frees its slot and is
\* shown in finished until the next step
Put(f, r) ==
    IF r.pc \in {"done", "lost"}
    THEN /\ flows' = [flows EXCEPT ![f] = IdleFlow]
         /\ finished' = Forget(r)
    ELSE /\ flows' = [flows EXCEPT ![f] = Forget(r)]
         /\ finished' = IdleFlow

\* the flow goes on from a wait: run it to its next wait
Resume(f, r) == \E inp \in InputsFor(r.prog) : Put(f, RunSync(r, inp))

At(f, op) ==
    /\ serverUp
    /\ flows[f].pc = "wait"
    /\ Head(flows[f].prog) = op

\* Server.handleRequest up to the first wait of Request.parseBody
Receive(f) ==
    /\ serverUp
    /\ served < MaxRequests
    /\ flows[f].pc = "idle"
    /\ served' = served + 1
    /\ \E method \in Methods, urlOk \in BOOLEAN, exits \in BOOLEAN :
          IF ~urlOk
          THEN \* new URL(req.url, ...) throws outside the try: the rejection of
               \* handleRequest is handled nowhere
               /\ Put(f, [IdleFlow EXCEPT !.pc = "lost", !.method = method, !.err = "Error"])
               /\ serverUp' = ~exits
          ELSE /\ exits
               /\ Put(f, [IdleFlow EXCEPT
                                  !.method = method,
                                  !.pc = IF method \in {"GET", "DELETE"} THEN "parsed" ELSE "body",
                                  !.log = IF method \in {"GET", "DELETE"} THEN <<"parsed">>
                                          ELSE <<>>])
               /\ UNCHANGED serverUp
    /\ UNCHANGED <<Store, revoked>>
    /\ UNCHANGED <<probe, work>>

\* a chunk of a request body: what it adds to the bytes received and to
\* body.length, the UTF-16 units of chunk.toString()
ChunkKinds == {"small", "big", "wide"}
ChunkBytes(k) == IF k = "small" THEN SmallChunk ELSE BigChunk
ChunkChars(k) == IF k = "wide" THEN BigChunk \div WideChar ELSE ChunkBytes(k)

\* Request.parseBody, the 'data' listener
BodyData(f) ==
    /\ serverUp
    /\ flows[f].pc = "body"
    /\ flows[f].chunks < MaxChunks
    /\ \E k \in ChunkKinds :
          LET r     == flows[f]
              bytes == r.bodyBytes + ChunkBytes(k)
              chars == r.bodyChars + ChunkChars(k)
              r1    == [r EXCEPT !.bodyBytes = bytes, !.bodyChars = chars, !.chunks = @ + 1]
              r2    == IF bytes > maxBodySize /\ r.bodyBytes <= maxBodySize
                       THEN Logged(r1, "oversize") ELSE r1
          IN  Put(f, IF chars > maxBodySize
                  THEN \* req.connection.destroy(); reject(...): caught by handleRequest
                       Throw([r2 EXCEPT !.destroyed = TRUE], "Error")
                  ELSE r2)
    /\ UNCHANGED <<Store, revoked, served, serverUp>>
    /\ UNCHANGED <<probe, work>>

\* Request.parseBody, the 'end' listener
BodyEnd(f) ==
    /\ serverUp
    /\ flows[f].pc = "body"
    /\ \E content \in {"json", "badjson", "form", "text"} :
          LET r  == flows[f]
              r1 == [r EXCEPT !.bodyChars = 0, !.bodyBytes = 0, !.chunks = 0]
          IN  IF content = "badjson"
              THEN \* JSON.parse throws; the catch block evaluates reject(error) with
                   \* error undefined: a ReferenceError thrown out of the listener
                   /\ r.bodyChars > 0
                   /\ Put(f, [r1 EXCEPT !.pc = "lost", !.err = "Error", !.body = "malformed"])
                   /\ serverUp' = FALSE
              ELSE /\ Put(f, [Logged(r1, "parsed") EXCEPT
                            !.pc = "parsed",
                            !.body = CASE content = "json" ->
                                            IF r.bodyChars = 0 THEN "emptyObject" ELSE "parsed"
                                       [] content = "form" -> "form"
                                       [] OTHER            -> "raw"])
                   /\ UNCHANGED serverUp
    /\ UNCHANGED <<Store, revoked, served>>
    /\ UNCHANGED <<probe, work>>

\* Request.parseBody, the 'error' listener: reject, caught by handleRequest
BodyError(f) ==
    /\ serverUp
    /\ flows[f].pc = "body"
    /\ Put(f, Throw([flows[f] EXCEPT !.bodyChars = 0, !.bodyBytes = 0, !.chunks = 0], "Error"))
    /\ UNCHANGED <<Store, revoked, served, serverUp>>
    /\ UNCHANGED <<probe, work>>

\* Server.handleRequest from Router.match to the first wait of the handler
Dispatch(f) ==
    /\ serverUp
    /\ flows[f].pc = "parsed"
    /\ \E pathname \in Pathnames, header \in CookieHeaders :
          LET r     == Logged([flows[f] EXCEPT !.body = "emptyObject", !.path = pathname],
                              "match")
              route == match(r.method, pathname)
          IN  IF route = 0
              THEN \* response.status(404).json({error: 'Route not found'}); return
                   Put(f, [send(r, 404) EXCEPT !.pc = "done"])
              ELSE LET rt == Routes[route]
                       cs == Captures(rt.path, pathname)
                       r1 == [Logged(r, "construct") EXCEPT
                                !.controller = rt.controller,
                                !.action     = rt.action,
                                !.param      = IF cs = <<>> THEN "" ELSE ParamText(cs[1]),
                                !.header     = header]
                   IN  IF getCookiesThrows(header)
                       THEN \* the constructor's _getToken: decodeURIComponent throws
                            Put(f, Throw(r1, "Error"))
                       ELSE Resume(f, [r1 EXCEPT
                               \* this.token = this._getToken() before cookieName is set
                               !.token = _getToken(header, undefinedKey),
                               !.pc    = "wait",
                               !.prog  = Program(rt.controller, rt.action, r.method, r1.param)])
    /\ UNCHANGED <<Store, revoked, served, serverUp>>
    /\ UNCHANGED <<probe, work>>

\* AuthModel.authenticate through MySQLDatabase.query, and the rest of
\* AuthController.authenticate
Lookup(f) ==
    /\ At(f, "lookup")
    /\ \E out \in Outcomes(flows[f]) :
          LET r    == flows[f]
              rows == authModelAuthenticate(sessions, r.token)
          IN  IF queryThrows(r, <<Str(r.token)>>, out)
              THEN Put(f, queryThrown(r, out))
              ELSE IF rows = {}
              THEN Put(f, Throw(queried(r, "lookup"), "AuthenticationException"))
              ELSE \E row \in rows :
                      Resume(f, [Logged(_setUserAndToken(queried(r, "lookup"), row.user_id,
                                                         r.token), "authenticated")
                                   EXCEPT !.authed = TRUE])
    /\ UNCHANGED <<Store, revoked, served, serverUp>>
    /\ UNCHANGED <<probe, work>>

\* a handler that passes the value of the path parameter to the user model
userIdParam(r) == parseInt(r.param)

\* the id UserController.read, update and delete pass to the user model:
\* this.userId
userIdArgument(r) == r.userId

\* the flow is in one of the handlers of /user/:userId
OnUser(r) == r.controller = "UserController" /\ r.action \in {"read", "update", "delete"}

\* a model method whose tables this model leaves open: its result is any
\* result the statement can have
Query(f) ==
    /\ \/ At(f, "query") \/ At(f, "queryName")
    /\ \E out \in Outcomes(flows[f]), res \in {"rows", "none"} :
          LET r      == flows[f]
              params == IF Head(r.prog) = "queryName" THEN <<Str(Chars(r.param))>> ELSE <<>>
          IN  IF queryThrows(r, params, out) \/ r.result = "nan"
              THEN Put(f, queryThrown(r, out))
              ELSE Resume(f, [queried(r, "statement") EXCEPT
                                !.result = res,
                                !.target = IF OnUser(r) THEN userIdArgument(r) ELSE @])
    /\ UNCHANGED <<Store, revoked, served, serverUp>>
    /\ UNCHANGED <<probe, work>>

\* UserModel.login: the user row of the email, then bcrypt.compare
LoginQuery(f) ==
    /\ At(f, "loginQuery")
    /\ \E out \in Outcomes(flows[f]) :
          LET r  == flows[f]
              r1 == [queried(r, "statement") EXCEPT !.cred = IdleFlow.cred]
          IN  IF queryThrows(r, <<>>, out)
              THEN Put(f, queryThrown(r, out))
              ELSE IF r.cred.user \in users /\ r.cred.pw
              THEN Resume(f, [r1 EXCEPT !.found = r.cred.user])
              ELSE \* this.deleteCookie(); throw new NotFoundException(...)
                   Put(f, Throw(clearCookie(r1, cookieName), "NotFoundException"))
    /\ UNCHANGED <<Store, revoked, served, serverUp>>
    /\ UNCHANGED <<probe, work>>

\* UserModel.create, the INSERT
UserInsert(f) ==
    /\ At(f, "userInsert")
    /\ \E out \in Outcomes(flows[f]), inserted \in BOOLEAN :
          LET r == flows[f]
          IN  IF queryThrows(r, <<>>, out)
              THEN /\ Put(f, queryThrown(r, out))
                   /\ UNCHANGED <<users, nextUser>>
              ELSE IF inserted /\ nextUser <= MaxUsers
              THEN /\ Resume(f, [queried(r, "statement") EXCEPT !.result = "rows"])
                   /\ users' = users \cup {nextUser}
                   /\ nextUser' = nextUser + 1
              ELSE /\ Resume(f, [queried(r, "statement") EXCEPT !.result = "none"])
                   /\ UNCHANGED <<users, nextUser>>
    /\ UNCHANGED <<sessions, issued, revoked, served, serverUp>>
    /\ UNCHANGED <<probe, work>>

\* UserModel.delete(this.userId)
UserDelete(f) ==
    /\ At(f, "userDelete")
    /\ \E out \in Outcomes(flows[f]) :
          LET r == flows[f]
          IN  IF queryThrows(r, <<>>, out)
              THEN /\ Put(f, queryThrown(r, out))
                   /\ UNCHANGED users
              ELSE /\ Resume(f, [queried(r, "statement") EXCEPT
                                   !.result = IF userIdArgument(r) \in users
                                              THEN "rows" ELSE "none",
                                   !.target = userIdArgument(r)])
                   /\ users' = users \ {userIdArgument(r)}
    /\ UNCHANGED <<sessions, nextUser, issued, revoked, served, serverUp>>
    /\ UNCHANGED <<probe, work>>

\* UserModel.sendMail: no store call
SendMail(f) ==
    /\ At(f, "sendMail")
    /\ \E sent \in BOOLEAN :
          LET r == flows[f]
          IN  IF sent
              THEN Resume(f, [r EXCEPT !.prog = Tail(@), !.result = "rows"])
              ELSE Put(f, Throw(r, "Error"))
    /\ UNCHANGED <<Store, revoked, served, serverUp>>
    /\ UNCHANGED <<probe, work>>

\* AuthController.createSession(userId)
CreateSession(f) ==
    /\ At(f, "createSession")
    /\ \E randomBytes \in RandomBase64, out \in Outcomes(flows[f]), persisted \in BOOLEAN,
          now \in Clock :
          LET tok == _generateToken(randomBytes)
              r   == [flows[f] EXCEPT !.token = tok]
              row == [token |-> tok, user_id |-> r.found,
                      expires_at |-> _getSessionExpiration(now)]
          IN  /\ tok \notin issued          \* tokens do not repeat
              /\ issued' = issued \cup {tok}
              /\ IF queryThrows(r, <<[type |-> "number", num |-> r.found], Str(tok),
                                      row.expires_at, Str(tok), row.expires_at>>, out)
                 THEN /\ Put(f, queryThrown(r, out))
                      /\ UNCHANGED sessions
                 ELSE IF persisted
                 THEN \* INSERT ... ON DUPLICATE KEY UPDATE: affectedRows > 0
                      /\ sessions' = upsert(sessions, row)
                      /\ Resume(f, cookie(_setUserAndToken(queried(r, "statement"), r.found, tok),
                                          cookieName, tok,
                                          [maxAge   |-> Get(this, "sessionTimeout"),
                                           secure   |-> [type |-> "boolean", bool |-> TRUE],
                                           sameSite |-> [type |-> "string", text |-> "Lax"]]))
                 ELSE /\ Put(f, Throw(queried(r, "statement"), "AuthenticationException"))
                      /\ UNCHANGED sessions
    /\ UNCHANGED <<users, nextUser, revoked, served, serverUp>>
    /\ UNCHANGED <<probe, work>>

\* AuthController.deleteSession()
DeleteSession(f) ==
    /\ At(f, "deleteSession")
    /\ \E out \in Outcomes(flows[f]) :
          LET r == flows[f]
          IN  IF queryThrows(r, <<Str(r.token)>>, out)
              THEN /\ Put(f, queryThrown(r, out))
                   /\ UNCHANGED <<sessions, revoked>>
              ELSE /\ sessions' = deleteSession(r, sessions).table
                   /\ revoked' = IF r.controller = "UserController"
                                 THEN revoked \cup ({getCookie(r.header, cookieName)} \ {<<>>})
                                 ELSE revoked
                   /\ Resume(f, deleteSession(r, sessions).flow)
    /\ UNCHANGED <<users, nextUser, issued, served, serverUp>>
    /\ UNCHANGED <<probe, work>>

\* MySQLDatabase.close()
Close(f) ==
    /\ At(f, "close")
    /\ LET r == flows[f]
       IN  Resume(f, [(IF r.conn = "open" THEN [Logged(r, "close") EXCEPT !.conn = "closed"]
                       ELSE r) EXCEPT !.prog = Tail(@)])
    /\ UNCHANGED <<Store, revoked, served, serverUp>>
    /\ UNCHANGED <<probe, work>>

Next ==
    \E f \in Flows :
        \/ Receive(f)
        \/ BodyData(f)
        \/ BodyEnd(f)
        \/ BodyError(f)
        \/ Dispatch(f)
        \/ Lookup(f)
        \/ Query(f)
        \/ LoginQuery(f)
        \/ UserInsert(f)
        \/ UserDelete(f)
        \/ SendMail(f)
        \/ CreateSession(f)
        \/ DeleteSession(f)
        \/ Close(f)

Spec == Init /\ [][Next]_vars

-----------------------------------------------------------------------------
(* Router.match on its own *)

\* the text of a pathname with these segments
RECURSIVE Text(_)
Text(segs) == IF segs = <<>> THEN <<>> ELSE <<Slash>> \o Head(segs) \o Text(Tail(segs))

\* a call of Router.match: the methods are those this.routes has a list for
\* and two it has none for; the pathnames are made of up to MaxSegments
\* segments (words of the registered paths, a value of one symbol, a value of
\* two, the empty segment) under API_PATH and outside it, with the registered
\* paths themselves and the pathnames of the dispatch model
InitRouter ==
    LET RouterMethods  == Methods \cup {"PATCH", "HEAD"}
        RouterSegments ==
            { <<>>, <<"products">>, <<"categories">>, <<"orders">>, <<"statuses">>,
              <<"user">>, <<"sendMail">>, <<"7">>, <<"7", "x">> }
        SegmentLists    == UNION { [1..n -> RouterSegments] : n \in 0..MaxSegments }
        RouterPathnames ==
            { Path(API_PATH) \o Text(sl) : sl \in SegmentLists }
            \cup { Text(sl) : sl \in SegmentLists \ {<<>>} }
            \cup { Routes[i].path : i \in 1..Len(Routes) }
            \cup Pathnames
    IN  /\ flows    = [f \in Flows |-> IdleFlow]
        /\ finished = IdleFlow
        /\ sessions = {}
        /\ users    = {1}
        /\ nextUser = 2
        /\ revoked  = {}
        /\ issued   = {}
        /\ served   = 0
        /\ serverUp = TRUE
        /\ work     = NoWork
        /\ probe \in { [unit |-> "match", method |-> m, pathname |-> pn, done |-> FALSE,
                         route |-> 0, params |-> <<>>] :
                        m \in RouterMethods, pn \in RouterPathnames }

\* this.router.match(method, pathname)
Resolve ==
    /\ probe.unit = "match"
    /\ ~probe.done
    /\ LET route == match(probe.method, probe.pathname)
       IN  probe' = [probe EXCEPT
                       !.done   = TRUE,
                       !.route  = route,
                       !.params = IF route = 0 THEN <<>>
                                  ELSE matchParams(Routes[route], probe.pathname)]
    /\ UNCHANGED <<flows, finished, Store, revoked, served, serverUp, work>>

NextRouter == Resolve

SpecRouter == InitRouter /\ [][NextRouter]_vars

-----------------------------------------------------------------------------
(* Request inputs: lib/Request.js, and lib/InputSanitizer.js *)

\* The values of this section are the tagged values above, with null, the
\* strings of Str (chars: the characters, "NUL" being the null byte), arrays
\* (items) and objects (fields, a function of the keys).
Null == [type |-> "null"]

\* String.prototype.trim
RECURSIVE Trim(_)
Trim(s) ==
    IF s = <<>> THEN s
    ELSE IF IsSpace(Head(s)) THEN Trim(Tail(s))
    ELSE IF IsSpace(s[Len(s)]) THEN Trim(SubSeq(s, 1, Len(s) - 1))
    ELSE s

\* s.replace(/c/g, r) for a single character c
RECURSIVE Replace(_, _, _)
Replace(s, c, r) ==
    IF s = <<>> THEN s
    ELSE (IF Head(s) = c THEN r ELSE <<Head(s)>>) \o Replace(Tail(s), c, r)

\* parseInt(x), also with radix 10: of the text of x, leading white space
\* skipped, an optional sign and the decimal digits that follow; NaN when
\* there is none. The text of an array starts with the text of its first
\* item.
RECURSIVE ParseInt(_)
ParseInt(x) ==
    LET NaN == [type |-> "NaN"]
        Val(c) == CHOOSE n \in 0..9 : ToString(n) = c
        Pre(s) == CHOOSE n \in 0..Len(s) :
                     /\ \A k \in 1..n : s[k] \in Digits
                     /\ n < Len(s) => s[n + 1] \notin Digits
        Num[n \in Nat] == [s \in Seq(Digits) |->
                             IF n = 0 THEN 0 ELSE 10 * Num[n - 1][s] + Val(s[n])]
        Digs(s, sign) == IF Pre(s) = 0 THEN NaN
                         ELSE [type |-> "number",
                               num  |-> sign * Num[Pre(s)][SubSeq(s, 1, Pre(s))]]
        OfText(s) == IF s = <<>> THEN NaN
                     ELSE IF Head(s) = "-" THEN Digs(Tail(s), -1)
                     ELSE IF Head(s) = "+" THEN Digs(Tail(s), 1)
                     ELSE Digs(s, 1)
    IN  CASE x.type = "number" -> x
          [] x.type = "string" -> OfText(Trim(x.chars))
          [] x.type = "array"  -> IF x.items = <<>> THEN NaN ELSE ParseInt(x.items[1])
          [] OTHER             -> NaN

\* Request.sanitize(value)
RECURSIVE requestSanitize(_)
requestSanitize(value) ==
    CASE value.type = "array" ->
            [value EXCEPT !.items = [i \in 1..Len(value.items) |-> requestSanitize(value.items[i])]]
      [] value.type = "object" ->
            [value EXCEPT !.fields = [k \in DOMAIN value.fields |-> requestSanitize(value.fields[k])]]
      [] value.type = "string" ->
            Str(Trim(Replace(Replace(Replace(value.chars, "'", <<"'", "'">>),
                                     "\\", <<"\\", "\\">>),
                             "NUL", <<"\\", "0">>)))
      [] OTHER -> value

\* obj[key] for a request source: query and params are objects, the body is
\* whatever parseBody left (an object, an array, a string, null)
Member(obj, key) ==
    IF obj.type = "object" THEN Get(obj.fields, key) ELSE Undefined

\* Request.input(key, defaultValue, source); "throws" when the source is the
\* body and the body is null
input(req, key, defaultValue, source) ==
    LET from  == IF source \in {"query", "params"} THEN req[source] ELSE req.body
        value == Member(from, key)
    IN  IF from.type = "null" THEN [type |-> "throws"]
        ELSE IF value.type \in {"undefined", "null"} THEN defaultValue
        ELSE requestSanitize(value)

\* ProductsController.readAll / OrdersController.readAll up to the store
\* call, with ProductsModel.readAll / OrdersModel.readAll: the statement
\* handed to db.query
readAll(req, table) ==
    LET offset == ParseInt(input(req, "offset", [type |-> "number", num |-> 0], "query"))
        limit  == ParseInt(input(req, "limit", [type |-> "number", num |-> 10], "query"))
    IN  [sql    |-> "SELECT * FROM " \o table \o " LIMIT " \o ToText(offset) \o ", "
                      \o ToText(limit),
         params |-> <<>>]

\* String(value): the characters of the text of a value
RECURSIVE String(_)
String(value) ==
    LET RECURSIVE Decimal(_), Join(_)
        Decimal(n) == IF n < 0 THEN <<"-">> \o Decimal(0 - n)
                      ELSE IF n < 10 THEN <<ToString(n)>>
                      ELSE Decimal(n \div 10) \o <<ToString(n % 10)>>
        Join(items) == IF items = <<>> THEN <<>>
                       ELSE (IF Head(items).type \in {"null", "undefined"} THEN <<>>
                             ELSE String(Head(items)))
                            \o (IF Len(items) > 1 THEN <<",">> \o Join(Tail(items))
                                ELSE <<>>)
    IN  CASE value.type = "string"    -> value.chars
          [] value.type = "number"    -> Decimal(value.num)
          [] value.type = "boolean"   -> IF value.bool THEN <<"t", "r", "u", "e">>
                                         ELSE <<"f", "a", "l", "s", "e">>
          [] value.type = "null"      -> <<"n", "u", "l", "l">>
          [] value.type = "undefined" -> <<"u", "n", "d", "e", "f", "i", "n", "e", "d">>
          [] value.type = "NaN"       -> <<"N", "a", "N">>
          [] value.type = "array"     -> Join(value.items)
          [] value.type = "object"    -> <<"[", "o", "b", "j", "e", "c", "t", " ",
                                           "O", "b", "j", "e", "c", "t", "]">>

\* InputSanitizer._stripHtmlTags(value): value.replace(/<[^>]*>/g, '')
RECURSIVE _stripHtmlTags(_)
_stripHtmlTags(value) ==
    LET Closes == { k \in 2..Len(value) : value[k] = ">" }
        close  == CHOOSE k \in Closes : \A j \in Closes : k <= j
    IN  IF value = <<>> THEN value
        ELSE IF Head(value) = "<" /\ Closes # {}
        THEN _stripHtmlTags(SubSeq(value, close + 1, Len(value)))
        ELSE <<Head(value)>> \o _stripHtmlTags(Tail(value))

\* InputSanitizer.sanitizeString(value, options)
sanitizeString(value, options) ==
    LET text      == String(value)
        trimmed   == IF Get(options, "trim") # [type |-> "boolean", bool |-> FALSE]
                     THEN Trim(text) ELSE text
        stripped  == IF ~Truthy(Get(options, "allowHtml")) THEN _stripHtmlTags(trimmed)
                     ELSE trimmed
        sanitized == Replace(stripped, "NUL", <<>>)
        maxLength == Get(options, "maxLength")
    IN  IF value.type \in {"null", "undefined"} THEN Str(<<>>)
        ELSE IF Truthy(maxLength) /\ Len(sanitized) > maxLength.num
        THEN Str(SubSeq(sanitized, 1, maxLength.num))
        ELSE Str(sanitized)

sanitizeIntegerNoMax(value, options) ==
    LET parsed == ParseInt(IF value.type \in {"string", "number", "array"} THEN value
                           ELSE Str(String(value)))
        min    == Get(options, "min")
    IN  IF parsed.type = "NaN"
        THEN (IF Get(options, "default") # Undefined THEN options.default
              ELSE [type |-> "number", num |-> 0])
        ELSE IF min # Undefined /\ parsed.num < min.num THEN min ELSE parsed

\* InputSanitizer.sanitizeInteger(value, options); min and max are numbers
\* where they are given
sanitizeInteger(value, options) ==
    LET parsed == ParseInt(IF value.type \in {"string", "number", "array"} THEN value
                           ELSE Str(String(value)))
        min    == Get(options, "min")
        max    == Get(options, "max")
        atMin  == IF min # Undefined /\ parsed.num < min.num THEN min ELSE parsed
    IN  IF parsed.type = "NaN"
        THEN (IF Get(options, "default") # Undefined THEN options.default
              ELSE [type |-> "number", num |-> 0])
        ELSE IF max # Undefined /\ atMin.num > max.num THEN max ELSE atMin

\* InputSanitizer.sanitizeBoolean(value, options)
sanitizeBoolean(value, options) ==
    CASE value.type \in {"null", "undefined"} ->
            IF Truthy(Get(options, "default")) THEN options.default ELSE Null
      [] value.type = "boolean" -> [type |-> "boolean", bool |-> TRUE]
      [] value.type = "string" ->
            [type |-> "boolean",
             bool |-> [k \in 1..Len(value.chars) |-> Lc(value.chars[k])]
                        \in {<<"t", "r", "u", "e">>, <<"1">>, <<"y", "e", "s">>}]
      [] OTHER -> [type |-> "boolean", bool |-> Truthy(value)]

\* InputSanitizer.sanitizeFloat(value, options), for values whose text has
\* no fraction and no exponent and options without decimals: parseFloat is
\* then parseInt, and what follows is what sanitizeInteger does
sanitizeFloat(value, options) == sanitizeInteger(value, options)

\* the type names whose sanitizers (sanitizeEmail, sanitizeUrl,
\* sanitizePassword) are outside this model; no case below takes them
Unmodelled == {"email", "url", "password"}

\* InputSanitizer.sanitizeObject(obj, schema): schema maps each key to its
\* rules, an options object with a type; obj[key] throws a TypeError for the
\* objects null and undefined
sanitizeObject(obj, schema) ==
    LET Field(key) ==
            LET value == Member(obj, key)
                rules == schema[key]
            IN  CASE rules.type = "string"               -> sanitizeString(value, rules)
                  [] rules.type \in {"int", "integer"}   -> sanitizeInteger(value, rules)
                  [] rules.type \in {"bool", "boolean"}  -> sanitizeBoolean(value, rules)
                  [] rules.type \notin Unmodelled        -> value
    IN  IF DOMAIN schema # {} /\ obj.type \in {"null", "undefined"}
        THEN [type |-> "throws"]
        ELSE [type |-> "object", fields |-> [key \in DOMAIN schema |-> Field(key)]]

\* InputSanitizer.sanitizeArray(arr, type, options); the type "null" is null,
\* which sanitize passes
sanitizeArray(arr, type, options) ==
    LET Item(value) ==
            CASE type = "string"         -> sanitizeString(value, options)
              [] type = "integer"        -> sanitizeInteger(value, options)
              [] type \notin Unmodelled  -> value
    IN  IF arr.type # "array" THEN [type |-> "array", items |-> <<>>]
        ELSE [arr EXCEPT !.items = [k \in 1..Len(arr.items) |-> Item(arr.items[k])]]

\* String.prototype.toLowerCase of a type name
toLowerCase(type) ==
    CASE type = "String"  -> "string"
      [] type = "INT"     -> "int"
      [] type = "Boolean" -> "boolean"
      [] type = "Array"   -> "array"
      [] OTHER            -> type

\* InputSanitizer.sanitize(value, type, options)
sanitize(value, type, options) ==
    LET t == toLowerCase(type)
    IN  CASE t = "string"               -> sanitizeString(value, options)
          [] t \in {"int", "integer"}   -> sanitizeInteger(value, options)
          [] t \in {"bool", "boolean"}  -> sanitizeBoolean(value, options)
          [] t \in {"number", "float"}  -> sanitizeFloat(value, options)
          [] t = "object"               -> sanitizeObject(value, options)
          [] t = "array"                -> sanitizeArray(value, "null", options)
          [] t \notin Unmodelled        -> value

getValueBodyFirst(req, key, defaultValue) ==
    LET hasOwnProperty(obj) == obj.type = "object" /\ key \in DOMAIN obj.fields
    IN  IF req.body.type = "null" THEN [type |-> "throws"]
        ELSE IF hasOwnProperty(req.body) THEN input(req, key, defaultValue, "body")
        ELSE IF hasOwnProperty(req.params) THEN input(req, key, defaultValue, "params")
        ELSE IF hasOwnProperty(req.query) THEN input(req, key, defaultValue, "query")
        ELSE Undefined

\* Request.getValue(key, defaultValue): hasOwnProperty of a null body throws
getValue(req, key, defaultValue) ==
    LET hasOwnProperty(obj) == obj.type = "object" /\ key \in DOMAIN obj.fields
    IN  IF hasOwnProperty(req.query) THEN input(req, key, defaultValue, "query")
        ELSE IF hasOwnProperty(req.params) THEN input(req, key, defaultValue, "params")
        ELSE IF req.body.type = "null" THEN [type |-> "throws"]
        ELSE IF hasOwnProperty(req.body) THEN input(req, key, defaultValue, "body")
        ELSE Undefined

\* Request.getSanitizedInput(key, defaultValue, type, options)
getSanitizedInput(req, key, defaultValue, type, options) ==
    LET value == getValue(req, key, defaultValue)
    IN  IF value.type = "throws" THEN value ELSE sanitize(value, type, options)

\* the product object of ProductsController.update: its keys in their order,
\* the request key each is read from and the type it is read as
ProductFields ==
    << [key |-> "name",      from |-> "name",        type |-> "string"],
       [key |-> "desc",      from |-> "description", type |-> "string"],
       [key |-> "price",     from |-> "price",       type |-> "float"],
       [key |-> "stock",     from |-> "stock",       type |-> "int"],
       [key |-> "category",  from |-> "category",    type |-> "string"],
       [key |-> "image_url", from |-> "image_url",   type |-> "string"],
       [key |-> "is_active", from |-> "is_active",   type |-> "boolean"] >>

\* ProductsController.update from the inputs to the store call, with
\* ProductsModel.update(id, product): the columns of SET and their values,
\* for every key whose value is not null; sent is sql !== ''
productsUpdate(req) ==
    LET Value(i) == getSanitizedInput(req, ProductFields[i].from, Null,
                                      ProductFields[i].type, <<>>)
        set      == SelectSeq([i \in 1..Len(ProductFields) |-> i],
                              LAMBDA i : Value(i) # Null)
    IN  IF Value(1).type = "throws" THEN [throws |-> TRUE]
        ELSE [columns |-> [j \in 1..Len(set) |-> ProductFields[set[j]].key],
              values  |-> [j \in 1..Len(set) |-> Value(set[j])],
              sent    |-> set # <<>>]

\* new ApiException(message, null, code) as the exception classes call it,
\* and new Error(message) for every other error
NewError(name, message) ==
    [name    |-> name,
     code    |-> ExceptionCode(name),
     message |-> IF name \in ApiExceptions /\ message = "" THEN "An error occurred"
                 ELSE message]

\* JSON.stringify(data) of an object: a property whose value is undefined is
\* left out
Json(data) == [k \in { n \in DOMAIN data : data[n] # Undefined } |-> data[k]]

catchResponseVerbose(error, env) ==
    [status |-> CatchStatus(error.name),
     body   |-> Json([error   |-> [type |-> "string",
                                   text |-> IF error.name \in ApiExceptions THEN error.name
                                            ELSE "Internal Server Error"],
                      status  |-> [type |-> "number", num |-> CatchStatus(error.name)],
                      message |-> [type |-> "string", text |-> error.message]])]

\* the catch block of Server.handleRequest: the response to an error thrown
\* under process.env.NODE_ENV = env
catchResponse(error, env) ==
    LET message == IF env = [type |-> "string", text |-> "development"]
                   THEN [type |-> "string", text |-> error.message]
                   ELSE Undefined
    IN  IF error.name \in ApiExceptions
        THEN [status |-> error.code,
              body   |-> Json([error   |-> [type |-> "string", text |-> error.name],
                               status  |-> [type |-> "number",
                                            num  |-> IF error.code # 0 THEN error.code
                                                     ELSE 500],
                               message |-> message])]
        ELSE [status |-> 500,
              body   |-> Json([error   |-> [type |-> "string",
                                            text |-> "Internal Server Error"],
                               status  |-> [type |-> "number", num |-> 500],
                               message |-> message])]

-----------------------------------------------------------------------------
(* Functions called on their own *)

\* a call of one of the functions below. The options of a cookie have every
\* option absent, falsy or truthy; the tables of deleteSession hold rows for
\* two of three tokens; the parameters of a statement are strings the gate
\* passes, strings it flags, a number and a date
InitCalls ==
    LET Absent == [type |-> "absent"]
        Present(options) ==
            [k \in { n \in DOMAIN options : options[n] # Absent } |-> options[k]]
        CookieOptions ==
            { Present([maxAge |-> a, expires |-> e, path |-> p, httpOnly |-> h,
                       secure |-> c, sameSite |-> m]) :
                a \in { Absent, Undefined, [type |-> "number", num |-> 0],
                        [type |-> "number", num |-> 3600] },
                e \in { Absent, [type |-> "string", text |-> ""],
                        [type |-> "string", text |-> EpochText],
                        [type |-> "date", time |-> 86400000] },
                p \in { Absent, [type |-> "string", text |-> ""],
                        [type |-> "string", text |-> "/api"] },
                h \in { Absent, [type |-> "boolean", bool |-> FALSE],
                        [type |-> "boolean", bool |-> TRUE] },
                c \in { Absent, [type |-> "boolean", bool |-> TRUE] },
                m \in { Absent, [type |-> "string", text |-> "Lax"] } }
        ProbeTokens == {<<"a">>, <<"b">>, <<"c">>}
        SessionRows ==
            { [token |-> k, user_id |-> 1, expires_at |-> [type |-> "invalidDate"]] :
                k \in ProbeTokens \ {<<"c">>} }
        DatedRows ==
            { [token |-> k, user_id |-> 1, expires_at |-> [type |-> "date", time |-> t]] :
                k \in ProbeTokens \ {<<"c">>}, t \in Clock }
        DatedTables ==      \* token is the unique key of the table
            { t \in SUBSET DatedRows : \A a, b \in t : a.token = b.token => a = b }
        ProductBody ==
            [name        |-> Str(<<"a">>),
             description |-> Str(<<"b">>),
             price       |-> [type |-> "number", num |-> 5],
             stock       |-> Str(<<"3">>),
             is_active   |-> [type |-> "boolean", bool |-> FALSE]]
        ProductRequests ==
            { [query  |-> [type |-> "object", fields |-> <<>>],
               params |-> [type |-> "object", fields |-> [id |-> Str(<<"7">>)]],
               body   |-> [type |-> "object", fields |-> [k \in present |-> ProductBody[k]]]] :
                present \in SUBSET DOMAIN ProductBody }
        ParamInputs ==
            { Str(<<>>), Str(<<"a", "b">>), Str(<<"x", "-", "-", "y">>),
              Str(<<"d", "r", "o", "p">>),
              [type |-> "number", num |-> 7], [type |-> "invalidDate"] }
        PageInputs ==
            { Str(<<>>), Str(<<"5">>), Str(<<"7">>), Str(<<" ", "1", "2">>),
              Str(<<"-", "3">>), Str(<<"a">>), Str(<<"1", ";", "a">>) }
        Queries ==
            { [type |-> "object", fields |-> Present([offset |-> o, limit |-> l])] :
                o \in {Absent} \cup PageInputs, l \in {Absent} \cup PageInputs }
        Requests(queries) ==
            { [query |-> q, params |-> [type |-> "object", fields |-> <<>>],
               body |-> [type |-> "object", fields |-> <<>>]] : q \in queries }
        Source(values) ==
            { [type |-> "object", fields |-> Present([name |-> v])] :
                v \in {Absent} \cup values }
        NamedRequests ==
            { [query |-> q, params |-> p, body |-> b] :
                q \in Source({Str(<<"q">>), Str(<<" ", "<", "b", ">", "q">>)}),
                p \in Source({Str(<<"p">>)}),
                b \in Source({Str(<<"b">>), Str(<<"4", "2">>), Null,
                              [type |-> "number", num |-> 7],
                              [type |-> "boolean", bool |-> FALSE]})
                      \cup {Null, [type |-> "array", items |-> <<Str(<<"b">>)>>]} }
        Defaults == {Null, Str(<<"d">>), [type |-> "number", num |-> 5]}
        Texts ==
            { Str(<<"a">>), Str(<<" ", "a", " ">>), Str(<<"<", "b", ">", "a">>),
              Str(<<"a", "NUL", "b">>), Str(<<"o", "'", "k">>), Str(<<"a", "\\", "b">>) }
        BodyValues ==
            Texts \cup {Null, [type |-> "number", num |-> 7]}
            \cup { [type |-> "array", items |-> <<t, Str(<<"a">>)>>] : t \in Texts }
            \cup { [type |-> "object", fields |-> [first |-> t]] : t \in Texts }
        InputRequests ==
            { [query |-> q, params |-> p, body |-> b] :
                q \in Source({Str(<<"q">>)}), p \in Source({Str(<<"p">>)}),
                b \in Source(BodyValues) }
        Strings ==
            { Str(t) : t \in UNION { [1..n -> {"a", " ", "<", ">", "NUL"}] :
                                        n \in 0..MaxText } }
        StringOptions ==
            { Present([trim |-> t, allowHtml |-> h, maxLength |-> m]) :
                t \in {Absent, [type |-> "boolean", bool |-> FALSE]},
                h \in {Absent, [type |-> "boolean", bool |-> TRUE]},
                m \in {Absent, [type |-> "number", num |-> 2]} }
        Uc(c) == IF c \in Lower THEN UpperSeq[CHOOSE i \in 1..26 : LowerSeq[i] = c] ELSE c
        Word(t) == {Str(t), Str([k \in 1..Len(t) |-> Uc(t[k])])}
        BooleanInputs ==
            { [type |-> "boolean", bool |-> b] : b \in BOOLEAN }
            \cup Word(<<"t", "r", "u", "e">>) \cup Word(<<"y", "e", "s">>)
            \cup Word(<<"n", "o">>) \cup Word(<<"f", "a", "l", "s", "e">>)
            \cup { Str(<<"T", "r", "u", "e">>), Str(<<"1">>), Str(<<"0">>), Str(<<>>),
                   Str(<<" ", "1">>), Null, Undefined,
                   [type |-> "array", items |-> <<>>] }
            \cup { [type |-> "number", num |-> n] : n \in 0..1 }
        BooleanOptions ==
            { Present([default |-> d]) :
                d \in { Absent, Null, Str(<<"d">>), [type |-> "boolean", bool |-> FALSE],
                        [type |-> "boolean", bool |-> TRUE] } }
        Number(n) == [type |-> "number", num |-> n]
        IntegerInputs ==
            { Str(<<"1", "2">>), Str(<<"-", "3">>), Str(<<" ", "7">>), Str(<<"7", "a">>),
              Str(<<"+", "4">>), Str(<<"a">>), Str(<<>>), Null, Undefined,
              [type |-> "boolean", bool |-> TRUE],
              [type |-> "array", items |-> <<Str(<<"5">>), Str(<<"6">>)>>] }
            \cup { Number(n) : n \in {-3, 0, 5, 12} }
        IntegerOptions ==
            { o \in { Present([default |-> d, min |-> lo, max |-> hi]) :
                        d \in {Absent, Null, Str(<<"1", "2">>), Number(-1), Number(5)},
                        lo \in {Absent, Number(0), Number(3)},
                        hi \in {Absent, Number(3), Number(10)} } :
                {"min", "max"} \subseteq DOMAIN o => o.min.num <= o.max.num }
        Values ==
            { Null, Undefined, Str(<<>>), Str(<<" ", "<", "b", ">", "7">>), Str(<<"y", "e", "s">>),
              Number(0), Number(12), [type |-> "boolean", bool |-> FALSE],
              [type |-> "array", items |-> <<>>],
              [type |-> "array", items |-> <<Str(<<" ", "4">>), Null>>],
              [type |-> "object", fields |-> <<>>],
              [type |-> "object", fields |-> [name |-> Str(<<" ", "a">>)]] }
        Typed ==
            ({"string", "String", "int", "integer", "INT", "bool", "boolean", "array",
              "Array", "json"}
               \X {<<>>, [maxLength |-> Number(2)], [default |-> Number(5), max |-> Number(9)]})
            \cup ({"object"} \X {<<>>, [name |-> [type |-> "string"]],
                                  [name |-> [type |-> "int", min |-> Number(1)],
                                   other |-> [type |-> "json"]]})
        Rules ==
            { [type |-> t] : t \in {"string", "int", "integer", "bool", "boolean",
                                     "String", "array", "json"} }
            \cup { [type |-> "string", maxLength |-> Number(2)],
                   [type |-> "integer", default |-> Number(5), max |-> Number(9)] }
        Base64 ==
            { b \o <<"=", "=">> :
                b \in UNION { [1..n -> {"a", "Z", "0", "+", "/"}] : n \in 1..MaxText } }
        Thrown ==
            { NewError(n, t) :
                n \in ApiExceptions \cup {"Error", "TypeError"},
                t \in {"", "Invalid session", "connect ECONNREFUSED 10.0.0.5:3306"} }
        Environments ==
            { Undefined } \cup
            { [type |-> "string", text |-> t] :
                t \in {"development", "production", "test", "Development"} }
    IN  /\ flows    = [f \in Flows |-> IdleFlow]
        /\ finished = IdleFlow
        /\ sessions = {}
        /\ users    = {1}
        /\ nextUser = 2
        /\ revoked  = {}
        /\ issued   = {}
        /\ served   = 0
        /\ serverUp = TRUE
        /\ work     = NoWork
        /\ probe \in
              { [unit |-> "_getSessionExpiration", now |-> now, done |-> FALSE,
                 result |-> Undefined] : now \in Clock }
              \cup
              { [unit |-> "cookie", name |-> cookieName, value |-> v, options |-> o,
                 done |-> FALSE, result |-> NoCookieSet] :
                   v \in {<<>>, <<"a", "b">>}, o \in CookieOptions }
              \cup
              { [unit |-> "clearCookie", name |-> n, done |-> FALSE,
                 result |-> NoCookieSet] : n \in {cookieName, "other"} }
              \cup
              { q \in { [unit |-> op, params |-> ps, out |-> out, done |-> FALSE,
                         flow |-> [IdleFlow EXCEPT !.conn = c, !.prog = <<op>>],
                         driver |-> <<>>] :
                           op \in {"query", "execute", "fetchFirst"},
                           ps \in UNION { [1..n -> ParamInputs] : n \in 0..MaxParams },
                           c \in {"none", "open", "closed"},
                           out \in {"ok", "driverFail", "connectFail"} } :
                    q.out \in Outcomes(q.flow) }
              \cup
              { [unit |-> "deleteSession", table |-> t, done |-> FALSE,
                 flow |-> [IdleFlow EXCEPT !.token = k, !.userId = u, !.setCookie = c,
                                           !.prog = <<"deleteSession">>],
                 once |-> <<>>, twice |-> <<>>] :
                   t \in SUBSET SessionRows, k \in {<<>>} \cup ProbeTokens, u \in 0..1,
                   c \in {NoCookieSet, cookieStr(cookieName, <<"a">>, <<>>)} }
              \cup
              { [unit |-> "catch", env |-> v, error |-> e, other |-> o, done |-> FALSE,
                 response |-> <<>>, otherResponse |-> <<>>] :
                   v \in Environments, e \in Thrown, o \in Thrown }
              \cup
              { [unit |-> "getSanitizedInput", request |-> r, defaultValue |-> d,
                 as |-> t, options |-> o, done |-> FALSE, result |-> Undefined] :
                   r \in NamedRequests, d \in Defaults,
                   t \in {"string", "int", "boolean"},
                   o \in {<<>>, [default |-> [type |-> "number", num |-> 9]]} }
              \cup
              { [unit |-> "input", request |-> r, defaultValue |-> d, source |-> src,
                 done |-> FALSE, result |-> Undefined] :
                   r \in InputRequests, d \in Defaults,
                   src \in {"query", "params", "body"} }
              \cup
              { [unit |-> "sanitizeString", value |-> v, options |-> o, done |-> FALSE,
                 once |-> Undefined, twice |-> Undefined] :
                   v \in Strings, o \in StringOptions }
              \cup
              { [unit |-> "sanitizeBoolean", value |-> v, options |-> o, done |-> FALSE,
                 result |-> Undefined] : v \in BooleanInputs, o \in BooleanOptions }
              \cup
              { [unit |-> "sanitizeInteger", value |-> v, options |-> o, done |-> FALSE,
                 once |-> Undefined, twice |-> Undefined] :
                   v \in IntegerInputs, o \in IntegerOptions }
              \cup
              { [unit |-> "sanitize", value |-> v, as |-> t[1], options |-> t[2],
                 done |-> FALSE, result |-> Undefined] : v \in Values, t \in Typed }
              \cup
              { [unit |-> "sanitizeObject", value |-> v, rule |-> r, done |-> FALSE,
                 field |-> Undefined, item |-> Undefined, alone |-> Undefined] :
                   v \in Values, r \in Rules }
              \cup
              { [unit |-> "authModel.authenticate", table |-> t, token |-> k,
                 now |-> now, done |-> FALSE, result |-> Undefined] :
                   t \in DatedTables, k \in ProbeTokens, now \in Clock }
              \cup
              { [unit |-> "products.update", request |-> r, done |-> FALSE,
                 statement |-> <<>>] : r \in ProductRequests }
              \cup
              { [unit |-> "_generateToken", randomBytes |-> b, done |-> FALSE,
                 token |-> <<>>, gate |-> FALSE, flow |-> IdleFlow] : b \in Base64 \cup RandomBase64 }
              \cup
              { [unit |-> "readAll", table |-> t, request |-> r, other |-> o,
                 done |-> FALSE, statement |-> <<>>, otherStatement |-> <<>>] :
                   t \in {"products", "orders"}, r \in Requests(Queries),
                   o \in Requests(Queries) }

\* this._getSessionExpiration()
CallGetSessionExpiration ==
    /\ probe.unit = "_getSessionExpiration" /\ ~probe.done
    /\ probe' = [probe EXCEPT !.done = TRUE, !.result = _getSessionExpiration(probe.now)]
    /\ UNCHANGED <<flows, finished, Store, revoked, served, serverUp, work>>

\* response.cookie(name, value, options)
CallCookie ==
    /\ probe.unit = "cookie" /\ ~probe.done
    /\ probe' = [probe EXCEPT
                   !.done = TRUE,
                   !.result = cookie(IdleFlow, probe.name, probe.value, probe.options).setCookie]
    /\ UNCHANGED <<flows, finished, Store, revoked, served, serverUp, work>>

\* response.clearCookie(name)
CallClearCookie ==
    /\ probe.unit = "clearCookie" /\ ~probe.done
    /\ probe' = [probe EXCEPT !.done = TRUE,
                              !.result = clearCookie(IdleFlow, probe.name).setCookie]
    /\ UNCHANGED <<flows, finished, Store, revoked, served, serverUp, work>>

\* this.deleteSession(), and this.deleteSession() again after it
CallDeleteSession ==
    /\ probe.unit = "deleteSession" /\ ~probe.done
    /\ LET once  == deleteSession(probe.flow, probe.table)
           twice == deleteSession([once.flow EXCEPT !.prog = probe.flow.prog], once.table)
       IN  probe' = [probe EXCEPT !.done = TRUE, !.once = once, !.twice = twice]
    /\ UNCHANGED <<flows, finished, Store, revoked, served, serverUp, work>>

\* db.query(sql, params), db.execute(sql, params), db.fetchFirst(sql, params):
\* execute and fetchFirst call query; driver is what this.connection.query
\* was called with
CallQuery ==
    /\ probe.unit \in {"query", "execute", "fetchFirst"} /\ ~probe.done
    /\ probe' = IF queryThrows(probe.flow, probe.params, probe.out)
                THEN [probe EXCEPT !.done = TRUE,
                                   !.flow = queryThrown(probe.flow, probe.out)]
                ELSE [probe EXCEPT !.done = TRUE,
                                   !.flow = queried(probe.flow, "statement"),
                                   !.driver = <<probe.params>>]
    /\ UNCHANGED <<flows, finished, Store, revoked, served, serverUp, work>>

\* GET /api/v1/products and GET /api/v1/orders, for two requests
CallReadAll ==
    /\ probe.unit = "readAll" /\ ~probe.done
    /\ probe' = [probe EXCEPT !.done = TRUE,
                              !.statement = readAll(probe.request, probe.table),
                              !.otherStatement = readAll(probe.other, probe.table)]
    /\ UNCHANGED <<flows, finished, Store, revoked, served, serverUp, work>>

\* the catch block of handleRequest, for two errors under one environment
CallCatch ==
    /\ probe.unit = "catch" /\ ~probe.done
    /\ probe' = [probe EXCEPT !.done = TRUE,
                              !.response = catchResponse(probe.error, probe.env),
                              !.otherResponse = catchResponse(probe.other, probe.env)]
    /\ UNCHANGED <<flows, finished, Store, revoked, served, serverUp, work>>

\* request.getSanitizedInput('name', defaultValue, type, options)
CallGetSanitizedInput ==
    /\ probe.unit = "getSanitizedInput" /\ ~probe.done
    /\ probe' = [probe EXCEPT
                   !.done = TRUE,
                   !.result = getSanitizedInput(probe.request, "name", probe.defaultValue,
                                                probe.as, probe.options)]
    /\ UNCHANGED <<flows, finished, Store, revoked, served, serverUp, work>>

\* request.input('name', defaultValue, source)
CallInput ==
    /\ probe.unit = "input" /\ ~probe.done
    /\ probe' = [probe EXCEPT
                   !.done = TRUE,
                   !.result = input(probe.request, "name", probe.defaultValue,
                                    probe.source)]
    /\ UNCHANGED <<flows, finished, Store, revoked, served, serverUp, work>>

\* InputSanitizer.sanitizeString(value, options), and again on its result
CallSanitizeString ==
    /\ probe.unit = "sanitizeString" /\ ~probe.done
    /\ LET once == sanitizeString(probe.value, probe.options)
       IN  probe' = [probe EXCEPT !.done = TRUE, !.once = once,
                                  !.twice = sanitizeString(once, probe.options)]
    /\ UNCHANGED <<flows, finished, Store, revoked, served, serverUp, work>>

\* InputSanitizer.sanitizeBoolean(value, options)
CallSanitizeBoolean ==
    /\ probe.unit = "sanitizeBoolean" /\ ~probe.done
    /\ probe' = [probe EXCEPT !.done = TRUE,
                              !.result = sanitizeBoolean(probe.value, probe.options)]
    /\ UNCHANGED <<flows, finished, Store, revoked, served, serverUp, work>>

\* InputSanitizer.sanitizeInteger(value, options), and again on its result
CallSanitizeInteger ==
    /\ probe.unit = "sanitizeInteger" /\ ~probe.done
    /\ LET once == sanitizeInteger(probe.value, probe.options)
       IN  probe' = [probe EXCEPT !.done = TRUE, !.once = once,
                                  !.twice = sanitizeInteger(once, probe.options)]
    /\ UNCHANGED <<flows, finished, Store, revoked, served, serverUp, work>>

\* InputSanitizer.sanitize(value, type, options)
CallSanitize ==
    /\ probe.unit = "sanitize" /\ ~probe.done
    /\ probe' = [probe EXCEPT !.done = TRUE,
                              !.result = sanitize(probe.value, probe.as, probe.options)]
    /\ UNCHANGED <<flows, finished, Store, revoked, served, serverUp, work>>

\* one value under one rule, three ways: as the field of an object given to
\* sanitizeObject, as the element of an array given to sanitize(.., 'array',
\* ..), and given to sanitize with the type of the rule
CallSanitizeObject ==
    /\ probe.unit = "sanitizeObject" /\ ~probe.done
    /\ LET object == [type |-> "object", fields |-> [name |-> probe.value]]
           array  == [type |-> "array", items |-> <<probe.value>>]
       IN  probe' = [probe EXCEPT
                       !.done  = TRUE,
                       !.field = sanitizeObject(object, [name |-> probe.rule]).fields.name,
                       !.item  = sanitize(array, "array", probe.rule).items[1],
                       !.alone = sanitize(probe.value, probe.rule.type, probe.rule)]
    /\ UNCHANGED <<flows, finished, Store, revoked, served, serverUp, work>>

\* this._generateToken(), the gate of the store on that token as a parameter
\* (AuthModel.createSession, AuthModel.authenticate), and authenticate() up
\* to the store call for a request whose session cookie is that token
CallGenerateToken ==
    /\ probe.unit = "_generateToken" /\ ~probe.done
    /\ LET token == _generateToken(probe.randomBytes)
       IN  probe' = [probe EXCEPT
                       !.done  = TRUE,
                       !.token = token,
                       !.gate  = _sanitizeParamsThrows(<<Str(token)>>),
                       !.flow  = authenticate([IdleFlow EXCEPT
                                                 !.header = << <<cookieName, token>> >>,
                                                 !.prog   = <<"authenticate", "lookup">>])]
    /\ UNCHANGED <<flows, finished, Store, revoked, served, serverUp, work>>

\* AuthModel.authenticate(token) at the time now, on a sessions table
CallAuthenticate ==
    /\ probe.unit = "authModel.authenticate" /\ ~probe.done
    /\ LET rows == authModelAuthenticate(probe.table, probe.token)
       IN  IF rows = {}
           THEN probe' = [probe EXCEPT !.done = TRUE, !.result = Null]
           ELSE \E row \in rows :
                   probe' = [probe EXCEPT !.done = TRUE,
                                          !.result = [user_id |-> row.user_id]]
    /\ UNCHANGED <<flows, finished, Store, revoked, served, serverUp, work>>

\* PUT /products/7 up to the statement ProductsModel.update hands to the store
CallProductsUpdate ==
    /\ probe.unit = "products.update" /\ ~probe.done
    /\ probe' = [probe EXCEPT !.done = TRUE, !.statement = productsUpdate(probe.request)]
    /\ UNCHANGED <<flows, finished, Store, revoked, served, serverUp, work>>

NextCalls ==
    \/ CallQuery
    \/ CallProductsUpdate
    \/ CallAuthenticate
    \/ CallGenerateToken
    \/ CallSanitize
    \/ CallSanitizeObject
    \/ CallSanitizeInteger
    \/ CallSanitizeBoolean
    \/ CallSanitizeString
    \/ CallInput
    \/ CallGetSanitizedInput
    \/ CallCatch
    \/ CallReadAll
    \/ CallGetSessionExpiration
    \/ CallCookie
    \/ CallClearCookie
    \/ CallDeleteSession

SpecCalls == InitCalls /\ [][NextCalls]_vars

-----------------------------------------------------------------------------
(* Concurrent flows and their store handles: DatabaseFactory, MySQLDatabase *)

\* a factory that keeps one MySQLDatabase object and hands it to every caller
getInstanceShared(handles) ==
    IF handles = <<>> THEN [handles |-> <<[connection |-> 0]>>, db |-> 1]
    ELSE [handles |-> handles, db |-> 1]

\* DatabaseFactory.fromEnv() / getInstance(type, config): new
\* MySQLDatabase(config), an object with no connection yet
getInstance(handles) ==
    [handles |-> Append(handles, [connection |-> 0]), db |-> Len(handles) + 1]

InitHandles ==
    /\ flows    = [f \in Flows |-> IdleFlow]
    /\ finished = IdleFlow
    /\ sessions = {}
    /\ users    = {1}
    /\ nextUser = 2
    /\ revoked  = {}
    /\ issued   = {}
    /\ served   = 0
    /\ serverUp = TRUE
    /\ probe    = NoProbe
    /\ work     = NoWork

Rest == <<flows, finished, Store, revoked, served, serverUp, probe>>

\* the flow calls this.connection.query(sql, params), unless the gate throws
\* before it
DriverCall(w, u, gateThrows) ==
    LET c == w.handles[w.flow[u].db].connection
    IN  IF gateThrows THEN [w EXCEPT !.flow[u].pc = "done"]
        ELSE [w EXCEPT !.flow[u].pc = "driver",
                       !.connections[c].users = @ \cup {u}]

\* Server.handleRequest up to the first store call of the handler: no route
\* (404, before any handle is made), or const db = DatabaseFactory.fromEnv()
\* and a handler that will issue some number of store calls
HandleRequest(u) ==
    /\ work.flow[u].pc = "idle"
    /\ \/ work' = [work EXCEPT !.flow[u].pc = "done"]
       \/ \E n \in 0..MaxCalls :
             LET made == getInstance(work.handles)
             IN  work' = [work EXCEPT !.handles = made.handles,
                                      !.flow[u] = [pc |-> "handler", db |-> made.db,
                                                   calls |-> n, called |-> FALSE]]
    /\ UNCHANGED Rest

\* MySQLDatabase.query(sql, params) up to its first await: connect() when
\* the object has no connection, else the gate and the driver call
QueryStart(u) ==
    /\ work.flow[u].pc = "handler" /\ work.flow[u].calls > 0
    /\ LET w == [work EXCEPT !.flow[u].called = TRUE]
       IN  IF w.handles[w.flow[u].db].connection = 0
           THEN work' = [w EXCEPT !.flow[u].pc = "connect"]
           ELSE \E gateThrows \in BOOLEAN : work' = DriverCall(w, u, gateThrows)
    /\ UNCHANGED Rest

\* MySQLDatabase.connect(): mysql.createConnection rejects and the flow
\* throws, or it resolves, this.connection is assigned and query goes on
Connect(u) ==
    /\ work.flow[u].pc = "connect"
    /\ \/ work' = [work EXCEPT !.flow[u].pc = "done"]
       \/ \E gateThrows \in BOOLEAN :
             LET c == Len(work.connections) + 1
                 w == [work EXCEPT
                         !.connections = Append(@, [opener |-> u, users |-> {},
                                                    ended |-> FALSE]),
                         !.handles[work.flow[u].db].connection = c]
             IN  work' = DriverCall(w, u, gateThrows)
    /\ UNCHANGED Rest

\* this.connection.query resolves, and the handler goes on, or rejects, and
\* the flow throws
Driver(u) ==
    /\ work.flow[u].pc = "driver"
    /\ \/ work' = [work EXCEPT !.flow[u].pc = "handler", !.flow[u].calls = @ - 1]
       \/ work' = [work EXCEPT !.flow[u].pc = "done"]
    /\ UNCHANGED Rest

\* MySQLDatabase.close(), after the last store call of the handler, and the
\* response: if (this.connection) await this.connection.end()
CloseHandle(u) ==
    /\ work.flow[u].pc = "handler" /\ work.flow[u].calls = 0
    /\ LET c == work.handles[work.flow[u].db].connection
       IN  work' = IF c = 0 THEN [work EXCEPT !.flow[u].pc = "done"]
                   ELSE [work EXCEPT !.flow[u].pc = "done",
                                     !.connections[c].users = @ \cup {u},
                                     !.connections[c].ended = TRUE]
    /\ UNCHANGED Rest

\* the handler returns or throws between two store calls without closing
Return(u) ==
    /\ work.flow[u].pc = "handler"
    /\ work' = [work EXCEPT !.flow[u].pc = "done"]
    /\ UNCHANGED Rest

NextHandles ==
    \E u \in Units :
        \/ HandleRequest(u)
        \/ QueryStart(u)
        \/ Connect(u)
        \/ Driver(u)
        \/ CloseHandle(u)
        \/ Return(u)

SpecHandles == InitHandles /\ [][NextHandles]_vars

-----------------------------------------------------------------------------
(* Properties *)

\* the flows a state shows: those in flight and the one the last step ended
Observed == { flows[f] : f \in Flows } \cup {finished}

Ended(r) == r.pc \in {"done", "lost"}

Has(r, e) == \E i \in 1..Len(r.log) : r.log[i] = e

\* the decoded session cookie of the request of r, '' if it has none
SessionCookie(r) ==
    IF getCookiesThrows(r.header) THEN <<>> ELSE getCookie(r.header, cookieName)

\* the handlers that are to run for authenticated users only
AuthRequired(r) ==
    \/ r.controller = "UserController"
       /\ (r.action \in {"read", "update", "delete"}
           \/ (r.action = "session" /\ r.method = "GET"))
    \/ r.controller = "ProductsController" /\ r.action \in {"update", "delete"}
    \/ r.controller = "OrdersController" /\ r.action \in {"readAll", "read"}
    \/ r.controller = "ReportController"

\* the status the error taxonomy gives each kind of error
KindStatus(e) ==
    CASE e = "AuthenticationException"    -> 401
      [] e = "MissingParametersException" -> 400
      [] e = "ValidationException"        -> 422
      [] e = "NotFoundException"          -> 404
      [] e = "MethodNotFoundException"    -> 404
      [] e = "MethodNotAllowedException"  -> 405
      [] OTHER                            -> 500

\* C1 (Revocation): once deleteSession() has completed in a flow whose request
\* carried the session cookie t (POST /auth/logout, DELETE /auth/session), the
\* sessions table holds no row for t, so that a later authenticate(t) finds
\* none and fails.
C1_Revocation == \A t \in revoked : \A s \in sessions : s.token # t

\* C2 (Session round-trip): while the row createSession(u) stored for the
\* token t is in the sessions table, authenticate() of a request carrying the
\* session cookie t succeeds and binds the user id u: the token passes the
\* test and goes to the lookup, and a lookup the store answers returns with
\* this.userId = u.
C2_SessionRoundTrip ==
    [][ \A f \in Flows : \A s \in sessions :
          LET r == IF flows'[f].pc = "idle" THEN finished' ELSE flows'[f]
          IN  /\ (flows[f].pc = "parsed" /\ Has(r, "authenticate")
                     /\ SessionCookie(r) = s.token)
                  => (r.pc = "wait" /\ Head(r.prog) = "lookup" /\ r.token = s.token)
              /\ (At(f, "lookup") /\ flows[f].token = s.token /\ Has(r, "lookup"))
                  => (r.authed /\ r.userId = s.user_id /\ r.token = s.token)
      ]_vars

\* a flow has authenticated with the session a login created for a user
C2_Witness ==
    \E r \in Observed : \E s \in sessions :
        /\ s.user_id \in UserIds /\ s.token \in issued
        /\ r.authed /\ SessionCookie(r) = s.token /\ r.userId = s.user_id

\* C3 (Token pre-filter): when the session cookie is absent, empty or holds
\* a character outside the allow-list, authenticate() throws the
\* Authentication error (status 401) and the flow has opened no connection
\* and sent no statement to the store.
C3_TokenPreFilter ==
    \A r \in Observed :
        (Has(r, "authenticate")
            /\ (SessionCookie(r) = <<>> \/ ~AllIn(SessionCookie(r), TokenClass)))
        => /\ r.pc = "done" /\ r.err = "AuthenticationException" /\ r.status = 401
           /\ r.conn = "none"
           /\ ~Has(r, "open") /\ ~Has(r, "lookup") /\ ~Has(r, "statement")

\* authenticate() has rejected a cookie that holds a character outside the
\* allow-list
C3_Witness ==
    \E r \in Observed :
        /\ Has(r, "authenticate")
        /\ SessionCookie(r) # <<>> /\ ~AllIn(SessionCookie(r), TokenClass)
        /\ r.err = "AuthenticationException" /\ r.responses = 1

\* C4 (Authentication precedes protected work): in a handler that requires
\* authentication, every store statement other than the session lookup comes
\* after authenticate() has returned, and a success response is sent only by
\* a flow in which authenticate() has returned.
C4_AuthBeforeWork ==
    \A r \in Observed : AuthRequired(r) =>
        /\ \A i \in 1..Len(r.log) :
              r.log[i] = "statement" => \E j \in 1..(i - 1) : r.log[j] = "authenticated"
        /\ (r.responses > 0 /\ r.status = 200) => r.authed

\* C5 (Connection release): a flow that opened a store connection has closed
\* it when the flow ends, on success and on every error path.
C5_ConnectionReleased == \A r \in Observed : Ended(r) => r.conn # "open"

\* C6 (Always responds): every flow that ends has written a response; none
\* returns without responding, and no failure escapes the dispatcher.
C6_AlwaysResponds == \A r \in Observed : Ended(r) => (r.pc = "done" /\ r.responses >= 1)

\* C7 (Single response): a flow finalizes its response at most once.
C7_SingleResponse == \A r \in Observed : r.responses <= 1

\* a handler closed the connection, then threw, and the catch block sent the
\* only response of the flow
C7_Witness ==
    \E r \in Observed :
        /\ r.pc = "done" /\ Has(r, "close") /\ r.err = "ValidationException"
        /\ r.responses = 1

\* C8 (Error mapping): every error raised in a flow is caught by the
\* dispatcher, which answers once with the status of the error's kind; a
\* protected handler reached without a session cookie answers 401.
C8_ErrorMapping ==
    \A r \in Observed :
        /\ r.err # "" => (r.pc = "done" /\ r.responses = 1 /\ r.status = KindStatus(r.err))
        /\ (Ended(r) /\ Has(r, "authenticate") /\ SessionCookie(r) = <<>>) => r.status = 401

\* C9 (Malformed JSON): a body of content type application/json that is not
\* well-formed JSON ends the flow with one 4xx response; an empty JSON body
\* parses to the empty object without error.
C9_MalformedJson ==
    \A r \in Observed :
        /\ r.body = "malformed" =>
              (r.pc = "done" /\ r.responses = 1 /\ r.status \in 400..499)
        /\ (r.pc = "parsed" /\ r.body = "emptyObject") => r.err = ""

\* C10 (Body-size cap): in a flow whose accumulated body has exceeded 1 MiB
\* the connection is destroyed and the flow has failed with no route
\* resolution, controller construction, handler step or store access.
C10_BodySizeCap ==
    \A r \in Observed : Has(r, "oversize") =>
        /\ r.destroyed /\ r.pc = "done" /\ r.err # ""
        /\ ~Has(r, "match") /\ ~Has(r, "construct") /\ ~Has(r, "authenticate")
        /\ ~Has(r, "open") /\ ~Has(r, "lookup") /\ ~Has(r, "statement")

\* the segments of a path text: the runs of symbols between its slashes
RECURSIVE Segments(_)
Segments(text) ==
    IF text = <<>> THEN <<>>
    ELSE LET rest == Tail(text)
             ends == { n \in 0..Len(rest) : n = Len(rest) \/ rest[n + 1] = Slash }
             n    == CHOOSE m \in ends : \A l \in ends : m <= l
         IN  <<SubSeq(rest, 1, n)>> \o Segments(SubSeq(rest, n + 1, Len(rest)))

\* a registered path accepts a pathname segment by segment
SegmentsAccept(path, pathname) ==
    LET P == Segments(path)
        T == Segments(pathname)
    IN  /\ Len(P) = Len(T)
        /\ \A i \in 1..Len(P) :
              IF P[i][1] \in ParamSegments THEN T[i] # <<>> ELSE T[i] = P[i]

\* the routes of a method that accept a pathname segment by segment
Accepting(method, pathname) ==
    { i \in 1..Len(Routes) :
        Routes[i].method = method /\ SegmentsAccept(Routes[i].path, pathname) }

\* the routes whose registered path has no parameter
LiteralRoutes ==
    { i \in 1..Len(Routes) :
        \A k \in 1..Len(Routes[i].path) : Routes[i].path[k] \notin ParamSegments }

\* C11 (Router first-registered-match-wins): match(method, path) returns the
\* earliest-registered route of the method whose pattern accepts the path
\* (null when there is none), never a later one, with each parameter name
\* bound to the path segment at the position of the parameter.
C11_FirstMatchWins ==
    (probe.unit = "match" /\ probe.done) =>
        LET hits == Accepting(probe.method, probe.pathname)
        IN  /\ hits = {} => probe.route = 0
            /\ hits # {} =>
                 /\ probe.route \in hits
                 /\ \A j \in hits : probe.route <= j
                 /\ LET P == Segments(Routes[probe.route].path)
                        T == Segments(probe.pathname)
                    IN  /\ DOMAIN probe.params =
                              { KeyName(P[i][1]) : i \in { k \in 1..Len(P) :
                                                             P[k][1] \in ParamSegments } }
                        /\ \A i \in 1..Len(P) :
                              P[i][1] \in ParamSegments =>
                                  probe.params[KeyName(P[i][1])] = T[i]

\* a pathname two routes of the method accept was resolved to the first
C11_Witness ==
    /\ probe.unit = "match" /\ probe.done
    /\ Cardinality(Accepting(probe.method, probe.pathname)) >= 2
    /\ probe.route # 0

\* C12 (Router exactness): the pattern of a registered path matches a
\* pathname only if both have the same number of segments and every literal
\* segment is equal; what a parameter binds is one whole segment, not empty
\* and without '/'.
C12_Exactness ==
    (probe.unit = "match" /\ probe.done) =>
        /\ \A i \in 1..Len(Routes) :
              PatternAccepts(Routes[i].path, probe.pathname)
                  => SegmentsAccept(Routes[i].path, probe.pathname)
        /\ \A k \in DOMAIN probe.params :
              /\ probe.params[k] # <<>>
              /\ \A j \in 1..Len(probe.params[k]) : probe.params[k][j] # Slash
              /\ \E i \in 1..Len(Segments(probe.pathname)) :
                    Segments(probe.pathname)[i] = probe.params[k]

\* a parameter was bound to a segment of two symbols
C12_Witness ==
    /\ probe.unit = "match" /\ probe.done /\ probe.route # 0
    /\ \E k \in DOMAIN probe.params : Len(probe.params[k]) = 2

\* C13 (Literal routes are not shadowed): with the table of setupRoutes, the
\* pathname of every route without parameters resolves to that route, e.g.
\* GET /products/categories to readCategories, GET /orders/statuses to
\* readStatuses, POST /user/sendMail to sendMail.
C13_LiteralRoutes ==
    (probe.unit = "match" /\ probe.done) =>
        \A i \in LiteralRoutes :
            (probe.method = Routes[i].method /\ probe.pathname = Routes[i].path)
                => probe.route = i

\* GET /api/v1/products/categories was resolved to readCategories
C13_Witness ==
    /\ probe.unit = "match" /\ probe.done
    /\ probe.method = "GET"
    /\ probe.pathname = Path(API_PATH \o <<"products", "categories">>)
    /\ probe.route # 0
    /\ Routes[probe.route].action = "readCategories"

\* C14 (Not found): when Router.match is called with a method and a pathname
\* that no registered route of the method accepts (also a method that has no
\* route at all), the flow ends with the single response 404 'Route not
\* found', raises no error, and has constructed no controller and opened no
\* store connection.
C14_NotFound ==
    \A r \in Observed :
        (Has(r, "match") /\ Accepting(r.method, r.path) = {}) =>
            /\ r.pc = "done" /\ r.status = 404 /\ r.responses = 1 /\ r.err = ""
            /\ r.controller = "" /\ ~Has(r, "construct")
            /\ r.conn = "none" /\ ~Has(r, "open") /\ ~Has(r, "statement")

\* a pathname that a route of another method accepts was answered 404, and
\* so was a request of a method without routes
C14_Witness ==
    \E r \in Observed :
        /\ Has(r, "match") /\ Accepting(r.method, r.path) = {}
        /\ r.status = 404
        /\ \/ \E i \in 1..Len(Routes) : SegmentsAccept(Routes[i].path, r.path)
           \/ r.method = "OPTIONS"

\* C15 (No cookie for an unpersisted session): a createSession() whose upsert
\* persists no row for the new token, because the statement affected no row
\* or because the store call threw, fails with the Authentication error, and
\* the response carries no cookie with the new token.
C15_UnpersistedFails ==
    [][ \A f \in Flows : \A tok \in issued' \ issued :
          LET r == IF flows'[f].pc = "idle" THEN finished' ELSE flows'[f]
          IN  (At(f, "createSession") /\ \A s \in sessions' : s.token # tok)
                  => /\ r.pc = "done" /\ r.err = "AuthenticationException"
                     /\ r.setCookie.value # tok
      ]_vars

\* C16 (Session expiration): the expires-at value computed for a new session
\* is the date 14 days (sessionTimeout) after the time of the computation.
C16_Expiration ==
    (probe.unit = "_getSessionExpiration" /\ probe.done) =>
        probe.result = [type |-> "date", time |-> probe.now + sessionTimeout]

\* the attributes named a of a serialized cookie
Attrs(c, a) == { i \in 1..Len(c.attrs) : c.attrs[i].attr = a }

\* C17 (Session cookie attributes): the cookie createSession sets for a new
\* token carries Path=/ and HttpOnly, and its Max-Age, a number of seconds,
\* is the 14-day lifetime of the session (sessionTimeout, in milliseconds).
C17_SessionCookie ==
    \A r \in Observed :
        (r.setCookie.name = cookieName /\ r.setCookie.value \in issued) =>
            LET c == r.setCookie
            IN  /\ \E i \in Attrs(c, "Path") : c.attrs[i].val = [type |-> "string", text |-> "/"]
                /\ Attrs(c, "HttpOnly") # {}
                /\ \E i \in Attrs(c, "Max-Age") :
                      /\ c.attrs[i].val.type = "number"
                      /\ c.attrs[i].val.num = sessionTimeout \div 1000

\* C18 (Max-Age XOR Expires): whatever the options, the cookie string holds
\* at most one of Max-Age and Expires; clearCookie(name) yields the cookie
\* of that name with the empty value, an Expires date before every later
\* clock reading and no Max-Age.
C18_MaxAgeXorExpires ==
    /\ (probe.unit = "cookie" /\ probe.done) =>
          (Attrs(probe.result, "Max-Age") = {} \/ Attrs(probe.result, "Expires") = {})
    /\ (probe.unit = "clearCookie" /\ probe.done) =>
          LET c == probe.result
          IN  /\ c.name = probe.name /\ c.value = <<>>
              /\ Attrs(c, "Max-Age") = {}
              /\ Cardinality(Attrs(c, "Expires")) = 1
              /\ \A i \in Attrs(c, "Expires") :
                    /\ NewDate(c.attrs[i].val).type = "date"
                    /\ \A now \in Clock \ {0} : NewDate(c.attrs[i].val).time < now

\* a cookie was serialized from options that set both maxAge and expires
C18_Witness ==
    /\ probe.unit = "cookie" /\ probe.done
    /\ Truthy(Get(probe.options, "maxAge")) /\ Truthy(Get(probe.options, "expires"))
    /\ probe.result.name = cookieName

\* what a response carries and what the controller holds after deleteSession
Outcome(r) == <<r.setCookie, r.status, r.responses, r.err, r.userId, r.token, r.conn>>

\* C19 (deleteSession is idempotent): a deleteSession() the store answers
\* raises no error also when the table has no row for the token, leaves no
\* row for the token, leaves the response with the cleared session cookie
\* whether or not there was a row, and a second deleteSession() after it
\* changes neither the table nor the response.
C19_DeleteIdempotent ==
    (probe.unit = "deleteSession" /\ probe.done) =>
        /\ probe.once.flow.err = "" /\ probe.once.flow.pc # "done"
        /\ \A s \in probe.once.table : s.token # probe.flow.token
        /\ probe.once.table \subseteq probe.table
        /\ probe.once.flow.setCookie = clearCookie(IdleFlow, cookieName).setCookie
        /\ probe.twice.table = probe.once.table
        /\ Outcome(probe.twice.flow) = Outcome(probe.once.flow)

\* deleteSession() ran twice for a token the table had no row for, and for
\* a response that carried a session cookie
C19_Witness ==
    /\ probe.unit = "deleteSession" /\ probe.done
    /\ probe.flow.token # <<>>
    /\ \A s \in probe.table : s.token # probe.flow.token
    /\ probe.table # {}
    /\ probe.flow.setCookie # NoCookieSet
    /\ Len(probe.twice.flow.log) = 3

\* C20 (Injection gate): a query, execute or fetchFirst whose parameter list
\* holds a string that detectSqlInjection flags ends with an error and
\* nothing is passed to the driver; when no parameter is flagged, the
\* connection is usable and the driver accepts the statement, the driver
\* receives the parameter list as it was given.
C20_InjectionGate ==
    (probe.unit \in {"query", "execute", "fetchFirst"} /\ probe.done) =>
        LET flagged == \E i \in 1..Len(probe.params) :
                           /\ probe.params[i].type = "string"
                           /\ detectSqlInjection(probe.params[i].chars)
        IN  /\ flagged =>
                  /\ probe.flow.err = "Error" /\ probe.flow.pc = "done"
                  /\ probe.driver = <<>> /\ ~Has(probe.flow, "statement")
            /\ (~flagged /\ probe.out = "ok" /\ probe.flow.conn = "open") =>
                  /\ probe.flow.err = ""
                  /\ probe.driver = <<probe.params>> /\ Has(probe.flow, "statement")

\* a call whose second parameter is flagged was stopped, on a connection the
\* driver would have answered
C20_Witness ==
    /\ probe.unit \in {"query", "execute", "fetchFirst"} /\ probe.done
    /\ Len(probe.params) = 2
    /\ probe.params[1] = [type |-> "number", num |-> 7]
    /\ probe.params[2] = Str(<<"d", "r", "o", "p">>)
    /\ probe.out = "ok" /\ probe.flow.conn = "open"
    /\ probe.flow.err = "Error"


\* C21: the text of every statement handed to the store is the same whatever
\* the request carries: two requests for the same listing, whatever their
\* offset and limit, produce the same statement text.
C21_StatementTextFixed ==
    (probe.unit = "readAll" /\ probe.done) =>
        probe.statement.sql = probe.otherStatement.sql


\* C22: outside development mode (NODE_ENV is not exactly 'development') the
\* response to an error, classified or not, carries no message, and two errors
\* of the same kind and status get the same response whatever their messages.
C22_MessageWithheld ==
    (/\ probe.unit = "catch" /\ probe.done
     /\ probe.env # [type |-> "string", text |-> "development"]) =>
        /\ "message" \notin DOMAIN probe.response.body
        /\ (/\ probe.error.name \in ApiExceptions <=> probe.other.name \in ApiExceptions
            /\ probe.error.name \in ApiExceptions => probe.error.name = probe.other.name
            /\ probe.error.code = probe.other.code) =>
                probe.response = probe.otherResponse

\* two errors of one class with different messages were answered in production
C22_Witness ==
    /\ probe.unit = "catch" /\ probe.done
    /\ probe.env = [type |-> "string", text |-> "production"]
    /\ probe.error.name = "AuthenticationException"
    /\ probe.other.name = probe.error.name
    /\ probe.error.message # probe.other.message
    /\ probe.response.status = 401
    /\ probe.response = probe.otherResponse


\* the sources of a request that hold the key, and the first of them in the
\* order query, params, body
Holding(req, key) ==
    { src \in {"query", "params", "body"} :
        req[src].type = "object" /\ key \in DOMAIN req[src].fields }

FirstHolding(req, key) ==
    IF "query" \in Holding(req, key) THEN "query"
    ELSE IF "params" \in Holding(req, key) THEN "params"
    ELSE "body"

\* C23: getSanitizedInput uses the first of query, params and body that holds
\* the key: the result is the one of the request that has the key in that
\* source alone, and for a string there it is that string sanitized.
C23_FirstSourceWins ==
    (probe.unit = "getSanitizedInput" /\ probe.done
        /\ Holding(probe.request, "name") # {}) =>
        LET first == FirstHolding(probe.request, "name")
            empty == [type |-> "object", fields |-> <<>>]
            alone == [src \in {"query", "params", "body"} |->
                        IF src = first THEN probe.request[src] ELSE empty]
            value == probe.request[first].fields.name
        IN  /\ probe.result = getSanitizedInput(alone, "name", probe.defaultValue,
                                                probe.as, probe.options)
            /\ (value.type = "string" /\ probe.as = "string") =>
                   probe.result = sanitizeString(requestSanitize(value), probe.options)

\* the key was in the query and in the body, with different values
C23_Witness ==
    /\ probe.unit = "getSanitizedInput" /\ probe.done
    /\ Holding(probe.request, "name") = {"query", "body"}
    /\ probe.request.query.fields.name = Str(<<"q">>)
    /\ probe.request.body.fields.name = Str(<<"b">>)
    /\ probe.as = "string"
    /\ probe.result = Str(<<"q">>)

\* C24: getSanitizedInput returns defaultValue when the key is in none of
\* query, params and body.
C24_DefaultWhenAbsent ==
    (probe.unit = "getSanitizedInput" /\ probe.done
        /\ probe.request.body.type # "null"
        /\ Holding(probe.request, "name") = {}) =>
        probe.result = probe.defaultValue


\* a value with the HTML tags stripped, the null bytes removed and the white
\* space trimmed, in its strings and those of its items and fields
RECURSIVE Cleaned(_)
Cleaned(value) ==
    CASE value.type = "string" ->
            Str(Trim(Replace(_stripHtmlTags(value.chars), "NUL", <<>>)))
      [] value.type = "array" ->
            [value EXCEPT !.items = [k \in 1..Len(value.items) |-> Cleaned(value.items[k])]]
      [] value.type = "object" ->
            [value EXCEPT !.fields = [k \in DOMAIN value.fields |-> Cleaned(value.fields[k])]]
      [] OTHER -> value

\* C25: input(key, default, source) reads the named source alone: the default
\* when that source lacks the key (or holds null), otherwise the value of that
\* source with HTML tags stripped, null bytes removed and white space trimmed,
\* also inside arrays and objects.
C25_InputCleaned ==
    (probe.unit = "input" /\ probe.done) =>
        LET value == Member(probe.request[probe.source], "name")
        IN  probe.result = IF value.type \in {"undefined", "null"} THEN probe.defaultValue
                           ELSE Cleaned(value)


\* C26: sanitizeString is idempotent: for every string x and options o,
\* sanitizeString(sanitizeString(x, o), o) = sanitizeString(x, o).
C26_StringIdempotent ==
    (probe.unit = "sanitizeString" /\ probe.done) => probe.twice = probe.once


\* C27: sanitizeBoolean returns true exactly for the boolean true and the
\* strings "true", "1" and "yes" in any letter case, false for every other
\* value that is not null or undefined, and the caller's default (where one
\* is given) for null and undefined.
C27_BooleanTable ==
    (probe.unit = "sanitizeBoolean" /\ probe.done) =>
        LET v    == probe.value
            yes  == \/ v = [type |-> "boolean", bool |-> TRUE]
                    \/ /\ v.type = "string"
                       /\ [k \in 1..Len(v.chars) |-> Lc(v.chars[k])]
                            \in {<<"t", "r", "u", "e">>, <<"1">>, <<"y", "e", "s">>}
        IN  IF v.type \in {"null", "undefined"}
            THEN "default" \in DOMAIN probe.options =>
                    probe.result = probe.options.default
            ELSE probe.result = [type |-> "boolean", bool |-> yes]


\* what parseInt reads of the value given to sanitizeInteger, the value
\* returned when it reads no integer, and membership of [min, max]
Parsed == ParseInt(IF probe.value.type \in {"string", "number", "array"} THEN probe.value
                   ELSE Str(String(probe.value)))

Fallback == IF "default" \in DOMAIN probe.options THEN probe.options.default
            ELSE [type |-> "number", num |-> 0]

Within(x) ==
    /\ x.type = "number"
    /\ "min" \in DOMAIN probe.options => probe.options.min.num <= x.num
    /\ "max" \in DOMAIN probe.options => x.num <= probe.options.max.num

IntegerContract ==
    /\ Parsed.type = "NaN" => probe.once = Fallback
    /\ Parsed.type = "number" =>
          /\ Within(probe.once)
          /\ Within(Parsed) => probe.once = Parsed
          /\ ~Within(Parsed) =>
                \/ probe.once = Get(probe.options, "min") /\ Parsed.num < probe.once.num
                \/ probe.once = Get(probe.options, "max") /\ Parsed.num > probe.once.num
    /\ Within(probe.value) => probe.once = probe.value

C29_SanitizeTotal ==
    (probe.unit = "sanitize" /\ probe.done) => probe.result.type # "throws"

\* C30: the value sanitizeObject produces for a field with a rule of type T,
\* and the value sanitize(.., 'array', ..) produces for an element, are the
\* value sanitize(value, T, rule) returns for that value alone.
C30_SameDispatch ==
    (probe.unit = "sanitizeObject" /\ probe.done) =>
        /\ probe.field = probe.alone
        /\ probe.item = probe.alone


\* C31: every character of a token _generateToken returns is in the class
\* authenticate() allows, and authenticate() does not reject a request whose
\* session cookie is that token before it asks the store.
C31_TokenInClass ==
    (probe.unit = "_generateToken" /\ probe.done) =>
        /\ probe.token # <<>>
        /\ AllIn(probe.token, TokenClass)
        /\ probe.flow.err = ""
        /\ probe.flow.prog = <<"lookup">>

\* a token was made of random text with '+' and '/' in it, and passed
C31_Witness ==
    /\ probe.unit = "_generateToken" /\ probe.done
    /\ \E i, j \in 1..Len(probe.randomBytes) :
          /\ probe.randomBytes[i] = "+" /\ probe.token[i] = "-"
          /\ probe.randomBytes[j] = "/" /\ probe.token[j] = "_"
    /\ probe.flow.token = probe.token
    /\ probe.flow.prog = <<"lookup">>


\* the place of a logged step in the order parse body, resolve route,
\* authenticate, handler store operations, close connection, write response
StepRank(e) ==
    CASE e = "oversize"                                     -> 0
      [] e = "parsed"                                       -> 1
      [] e \in {"match", "construct"}                       -> 2
      [] e \in {"authenticate", "lookup", "authenticated"}  -> 3
      [] e = "statement"                                    -> 4
      [] e = "close"                                        -> 5
      [] e = "respond"                                      -> 6

\* the steps of a flow without the opening of the connection, which is part
\* of the first store call, be it the one of authenticate or of the handler
Steps(r) == SelectSeq(r.log, LAMBDA e : e # "open")

\* C32: within a flow the steps run in the order parse body, resolve route,
\* authenticate, handler store operations, close connection, write response:
\* no step is followed by a step of an earlier kind, route resolution comes
\* after the body was parsed, and a flow that touched the store and answers
\* 200 has closed its connection before it writes the response.
C32_StepOrder ==
    \A r \in Observed :
        LET steps == Steps(r)
        IN  /\ \A i, j \in 1..Len(steps) :
                  i < j => StepRank(steps[i]) <= StepRank(steps[j])
            /\ \A j \in 1..Len(steps) :
                  steps[j] = "match" => \E i \in 1..(j - 1) : steps[i] = "parsed"
            /\ \A j \in 1..Len(steps) :
                  (steps[j] = "respond" /\ r.status = 200 /\ Has(r, "open")) =>
                      /\ \E i \in 1..(j - 1) : steps[i] = "close"
                      /\ r.conn = "closed"

\* a flow parsed, resolved its route, authenticated, queried, closed and
\* answered 200
C32_Witness ==
    \E r \in Observed :
        /\ Ended(r) /\ r.status = 200 /\ r.conn = "closed"
        /\ Steps(r) = <<"parsed", "match", "construct", "authenticate", "lookup",
                        "authenticated", "statement", "close", "respond">>


\* the connections a flow has opened
OpenedBy(u) == { c \in 1..Len(work.connections) : work.connections[c].opener = u }

\* C33: each flow has a store handle of its own; a flow opens a connection
\* only once it has issued a store call, and at most one; and whatever the
\* interleaving of the flows, a connection is used by no flow but the one
\* that opened it.
C33_OwnConnection ==
    /\ \A u, v \in Units :
          (u # v /\ work.flow[u].db # 0) => work.flow[u].db # work.flow[v].db
    /\ \A c \in 1..Len(work.connections) :
          work.connections[c].users \subseteq {work.connections[c].opener}
    /\ \A u \in Units :
          /\ Cardinality(OpenedBy(u)) <= 1
          /\ OpenedBy(u) # {} => work.flow[u].called

\* two flows were in flight together, each with a connection it opened and
\* used, while a third that issued no store call ended with none
C33_Witness ==
    \E u, v, x \in Units :
        /\ u # v
        /\ work.flow[u].pc = "driver" /\ work.flow[v].pc = "driver"
        /\ \E c \in OpenedBy(u) : work.connections[c].users = {u}
        /\ \E c \in OpenedBy(v) : work.connections[c].users = {v}
        /\ work.flow[x].pc = "done" /\ work.flow[x].db # 0 /\ ~work.flow[x].called
        /\ OpenedBy(x) = {}


\* C34: GET /report/:reportId runs one of orderStats, topProducts and
\* recentOrders and nothing else: with any other reportId the flow ends with
\* NotFoundException (404) and has executed no step of any method, no store
\* statement and no cookie.
C34_ReportWhitelist ==
    \A r \in Observed :
        (r.controller = "ReportController" /\ Ended(r) /\ r.pc = "done"
         /\ r.param \notin ReportOperations) =>
            /\ r.err = "NotFoundException" /\ r.status = 404
            /\ \A i \in 1..Len(r.log) :
                  r.log[i] \in {"parsed", "match", "construct", "respond"}
            /\ r.setCookie = NoCookieSet


\* C35: the injection gate of the store accepts every token _generateToken
\* returns, so that no statement with the token as a parameter (the upsert
\* of createSession, the lookup of authenticate) is aborted with 'Potential
\* SQL injection detected'.
C35_TokenPassesGate ==
    (probe.unit = "_generateToken" /\ probe.done) => ~probe.gate


\* C36: a session row comes into the store only from a login whose email and
\* password UserModel.login verified: the flow that adds a row is the login
\* handler of UserController, holds the user that login returned, and the
\* row's user id is that user's.
C36_SessionsFromLogins ==
    [][ \A f \in Flows : \A s \in sessions' \ sessions :
          At(f, "createSession") =>
              /\ flows[f].controller = "UserController" /\ flows[f].action = "login"
              /\ flows[f].found \in users
              /\ s.user_id = flows[f].found
      ]_vars


C38_OwnUserOnly ==
    \A r \in Observed : (OnUser(r) /\ r.target # 0) =>
        /\ r.authed /\ r.target = r.userId
        /\ r.token = SessionCookie(r)
        /\ (Has(r, "statement") /\ r.action # "delete") =>
               \E s \in sessions : s.token = r.token /\ s.user_id = r.target

\* user 1, logged in, asked to delete /user/2: user 1 was deleted and user 2
\* is still there
C38_Witness ==
    /\ finished.controller = "UserController" /\ finished.action = "delete"
    /\ finished.param = "2" /\ finished.target = 1 /\ finished.status = 200
    /\ 1 \notin users /\ 2 \in users


\* C39: PUT /products/:id changes only the fields present in the request:
\* every column of the UPDATE statement is the column of a field the request
\* carries, so that an absent field keeps its stored value.
C39_OnlyPresentFields ==
    (probe.unit = "products.update" /\ probe.done) =>
        \A j \in 1..Len(probe.statement.columns) :
            \E i \in 1..Len(ProductFields) :
                /\ ProductFields[i].key = probe.statement.columns[j]
                /\ ProductFields[i].from \in DOMAIN probe.request.body.fields

====
